---- MODULE Spec2Model ----
(***************************************************************************)
(* A model of the ci-rs-lang tree-walking interpreter: the driver of       *)
(* main.rs (run_file / run_prompt / run), the Resolver, the Environment    *)
(* frame chain and the evaluator of expr.rs / interpreter.rs.              *)
(*                                                                         *)
(* Representation.                                                         *)
(*  - A Literal is a record tagged by its field t.  Numbers are integers   *)
(*    (the inputs only use integral f64 values), a Str is the sequence of  *)
(*    its characters.                                                      *)
(*  - Option<T> is a sequence of length 0 (None) or 1 (Some).              *)
(*  - An Environment is the number of a frame of the heap; a frame holds   *)
(*    the Rc'd `values` map and the number of its `enclosing` frame        *)
(*    (0 = None).  Cloning an Environment copies the number, so every      *)
(*    clone shares `values`, as the Rc does.  `locals` is one map per      *)
(*    interpreter, as every frame holds the same Rc.                       *)
(*  - Expression evaluation and statement execution are the recursive      *)
(*    operators Eval and Exec, threading a world W (the heap, the output,  *)
(*    the event log, the remaining fuel).                                  *)
(*  - Fields named sid, scope, origin, id and the log are history          *)
(*    (ghost) data: the code never reads them.                             *)
(***************************************************************************)
EXTENDS Integers, Sequences, FiniteSets, TLC

\* The number of inputs one REPL session reads.
MaxInputs == 2

\* The number of loop iterations plus user-function calls one top-level
\* statement may perform before its execution counts as non-terminating.
MaxFuel == 6

\* ------------------------------------------------------------------------
\* Option<T>

None == <<>>

Some(x) == <<x>>

IsSome(o) == Len(o) = 1

Unwrap(o) == o[1]

\* ------------------------------------------------------------------------
\* token.rs

Token(lexeme, line) == [lexeme |-> lexeme, line |-> line]

\* ------------------------------------------------------------------------
\* expr.rs: Literal

Number(n) == [t |-> "Number", n |-> n]

Str(s) == [t |-> "Str", s |-> s]

Boolean(b) == [t |-> "Boolean", b |-> b]

Nil == [t |-> "Nil"]

Array(a) == [t |-> "Array", a |-> a]

LoxFunction(name, params, arity, body, environment, sid, origin) ==
    [t |-> "Callable", c |-> "LoxFunction", name |-> name, params |-> params,
     arity |-> arity, body |-> body, environment |-> environment,
     sid |-> sid, origin |-> origin]

NativeFunction(name, arity, fun) ==
    [t |-> "Callable", c |-> "NativeFunction", name |-> name, arity |-> arity,
     fun |-> fun]

\* The characters of the decimal digits.
DigitChars == <<"0", "1", "2", "3", "4", "5", "6", "7", "8", "9">>

RECURSIVE NatToChars(_)
NatToChars(n) ==
    IF n < 10 THEN <<DigitChars[n + 1]>>
    ELSE NatToChars(n \div 10) \o <<DigitChars[(n % 10) + 1]>>

\* format!("{}", n) of an integral f64.
NumberToChars(n) == IF n < 0 THEN <<"-">> \o NatToChars(-n) ELSE NatToChars(n)

RECURSIVE JoinChars(_, _)
JoinChars(parts, sep) ==
    IF parts = <<>> THEN <<>>
    ELSE IF Len(parts) = 1 THEN parts[1]
    ELSE parts[1] \o sep \o JoinChars(Tail(parts), sep)

\* Literal::to_string.  A callable's name is kept as one unit of text.
RECURSIVE to_string(_)
to_string(l) ==
    CASE l.t = "Number" -> NumberToChars(l.n)
      [] l.t = "Str" -> l.s
      [] l.t = "Boolean" -> IF l.b THEN <<"t", "r", "u", "e">>
                            ELSE <<"f", "a", "l", "s", "e">>
      [] l.t = "Nil" -> <<"n", "i", "l">>
      [] l.t = "Array" ->
            <<"[">> \o JoinChars([i \in 1..Len(l.a) |-> to_string(l.a[i])],
                                 <<",", " ">>) \o <<"]">>
      [] l.t = "Callable" ->
            IF l.c = "LoxFunction" THEN <<"<function> ", l.name.lexeme>>
            ELSE <<"<native function> ", l.name>>

to_type(l) ==
    CASE l.t = "Number" -> "Number"
      [] l.t = "Str" -> "String"
      [] l.t = "Boolean" -> "Boolean"
      [] l.t = "Nil" -> "nil"
      [] l.t = "Array" -> "array"
      [] l.t = "Callable" ->
            IF l.c = "LoxFunction" THEN "<function>" ELSE "<native function>"

is_falsy(l) ==
    CASE l.t = "Number" -> Boolean(l.n = 0)
      [] l.t = "Str" -> Boolean(Len(l.s) = 0)
      [] l.t = "Boolean" -> Boolean(l.b)
      [] l.t = "Array" -> Boolean(l.a = <<>>)
      [] l.t = "Nil" -> Boolean(TRUE)
      [] l.t = "Callable" -> Boolean(FALSE)

\* A truthiness under which only nil and false are falsy.
is_truthy_nil_false(l) == ~(l.t = "Nil" \/ (l.t = "Boolean" /\ ~l.b))

is_truthy(l) ==
    CASE l.t = "Number" -> l.n # 0
      [] l.t = "Str" -> Len(l.s) # 0
      [] l.t = "Boolean" -> l.b
      [] l.t = "Array" -> l.a # <<>>
      [] l.t = "Nil" -> FALSE
      [] l.t = "Callable" -> TRUE

\* callable.rs: impl PartialEq for Callables.
CallablesEq(x, y) ==
    IF x.c # y.c THEN FALSE
    ELSE x.name = y.name /\ x.arity = y.arity

\* An equality that compares the texts of the operands, whatever their types.
LooseEq(x, y) == to_string(x) = to_string(y)

\* #[derive(PartialEq)] on Literal: same variant and equal payload.
RECURSIVE LiteralEq(_, _)
LiteralEq(x, y) ==
    IF x.t # y.t THEN FALSE
    ELSE CASE x.t = "Number" -> x.n = y.n
           [] x.t = "Str" -> x.s = y.s
           [] x.t = "Boolean" -> x.b = y.b
           [] x.t = "Nil" -> TRUE
           [] x.t = "Array" ->
                 /\ Len(x.a) = Len(y.a)
                 /\ \A i \in 1..Len(x.a) : LiteralEq(x.a[i], y.a[i])
           [] x.t = "Callable" -> CallablesEq(x, y)

\* ------------------------------------------------------------------------
\* expr.rs: Expr, stmt.rs: Stmt.  The absent Option<Box<Expr>> and
\* Option<Box<Stmt>> are the records NoExpr and NoStmt.

NoExpr == [e |-> "None"]

NoStmt == [s |-> "None"]

ELiteral(literal) == [e |-> "Literal", literal |-> literal]

EGrouping(expr) == [e |-> "Grouping", expr |-> expr]

EUnary(operator, right) == [e |-> "Unary", operator |-> operator, right |-> right]

EBinary(left, operator, right) ==
    [e |-> "Binary", left |-> left, operator |-> operator, right |-> right]

ELogical(left, operator, right) ==
    [e |-> "Logical", left |-> left, operator |-> operator, right |-> right]

EVariable(name, index) == [e |-> "Variable", name |-> name, index |-> index]

EAssignment(name, value, position, index) ==
    [e |-> "Assignment", name |-> name, value |-> value, position |-> position,
     index |-> index]

EArray(elements) == [e |-> "Array", elements |-> elements]

EAccess(name, position, index) ==
    [e |-> "Access", name |-> name, position |-> position, index |-> index]

ECall(callee, args) == [e |-> "Call", callee |-> callee, args |-> args]

SExpression(expr) == [s |-> "Expression", expr |-> expr]

SIf(condition, then_branch, else_branch) ==
    [s |-> "If", condition |-> condition, then_branch |-> then_branch,
     else_branch |-> else_branch]

SReturn(value) == [s |-> "Return", value |-> value]

SVar(name, initializer) == [s |-> "Var", name |-> name, initializer |-> initializer]

SWhile(condition, body) == [s |-> "While", condition |-> condition, body |-> body]

\* sid names the block: it stands for the identity of the syntax node.
SBlock(sid, statements) == [s |-> "Block", statements |-> statements, sid |-> sid]

SFunction(sid, name, params, body) ==
    [s |-> "Function", name |-> name, params |-> params, body |-> body,
     sid |-> sid]

\* ------------------------------------------------------------------------
\* native.rs: the table that seeds the root frame.

globals ==
    ("clock" :> NativeFunction("clock", 0, "clock")) @@
    ("clear" :> NativeFunction("clear", 0, "clear")) @@
    ("input" :> NativeFunction("input", 1, "input")) @@
    ("parse" :> NativeFunction("parse", 2, "parse")) @@
    ("print" :> NativeFunction("print", 1, "print"))

\* ------------------------------------------------------------------------
\* environment.rs.  H is the heap of frames, env a frame number.

Frame(values, enclosing, scope) ==
    [values |-> values, enclosing |-> enclosing, scope |-> scope]

\* Environment::new: the root frame, frame 1 of a fresh heap.
Environment_new == [H |-> <<Frame(globals, 0, 0)>>, env |-> 1]

\* Environment::enclose: a frame with an empty map whose parent is env.
enclose(H, env, scope) ==
    [H |-> Append(H, Frame(<<>>, env, scope)), env |-> Len(H) + 1]

\* HashMap::insert on the frame's values.
define(H, env, name, value) ==
    [H EXCEPT ![env].values = (name :> value) @@ @]

\* Environment::clone (derived): the clone holds the same Rc, so it is the
\* same frame of the same heap.
\* A clone that copies the frame instead of the reference to it.
Environment_deep_copy(H, env) == [H |-> Append(H, H[env]), env |-> Len(H) + 1]

Environment_clone(H, env) == [H |-> H, env |-> env]

\* HashMap::get(..).cloned()
MapGet(m, key) == IF key \in DOMAIN m THEN Some(m[key]) ELSE None

\* The frame `distance` links above env; 0 when the chain ends first.
RECURSIVE Ancestor(_, _, _)
Ancestor(H, env, distance) ==
    IF distance = 0 \/ env = 0 THEN env
    ELSE Ancestor(H, H[env].enclosing, distance - 1)

\* The frame that has no enclosing frame, following the links from env.
RECURSIVE Outermost(_, _)
Outermost(H, env) ==
    IF H[env].enclosing = 0 THEN env ELSE Outermost(H, H[env].enclosing)

\* The innermost frame of the chain from env that binds name; 0 if none.
RECURSIVE NearestBinding(_, _, _)
NearestBinding(H, env, name) ==
    IF env = 0 THEN 0
    ELSE IF name \in DOMAIN H[env].values THEN env
    ELSE NearestBinding(H, H[env].enclosing, name)

\* The frame whose map get_at_distance ends up reading; 0 if it panics.
FrameRead(H, env, distance) ==
    IF IsSome(distance) THEN Ancestor(H, env, Unwrap(distance))
    ELSE Outermost(H, env)

\* Environment::get_at_distance.  k = "panic" is the failed expect().
RECURSIVE get_at_distance(_, _, _, _)
get_at_distance(H, env, name, distance) ==
    IF IsSome(distance) THEN
        IF Unwrap(distance) = 0 THEN [k |-> "ok", v |-> MapGet(H[env].values, name)]
        ELSE IF H[env].enclosing = 0 THEN [k |-> "panic", v |-> None]
        ELSE get_at_distance(H, H[env].enclosing, name, Some(Unwrap(distance) - 1))
    ELSE
        IF H[env].enclosing = 0 THEN [k |-> "ok", v |-> MapGet(H[env].values, name)]
        ELSE get_at_distance(H, H[env].enclosing, name, distance)

\* Environment::get
get(H, locals, env, name, index) ==
    LET distance == MapGet(locals, index)
        r == get_at_distance(H, env, name, distance)
    IN  IF r.k = "panic" THEN [k |-> "panic", v |-> Nil, err |-> "Should always be within max depth"]
        ELSE IF IsSome(r.v) THEN [k |-> "ok", v |-> Unwrap(r.v), err |-> ""]
        ELSE [k |-> "err", v |-> Nil, err |-> "Undefined variable"]

\* Environment::assign_at_distance.  With no distance the root's insert
\* happens before its result is inspected.
RECURSIVE assign_at_distance(_, _, _, _, _)
assign_at_distance(H, env, name, value, distance) ==
    IF IsSome(distance) THEN
        IF Unwrap(distance) = 0
        THEN [k |-> "ok", H |-> define(H, env, name, value), err |-> ""]
        ELSE IF H[env].enclosing = 0
        THEN [k |-> "panic", H |-> H, err |-> "Should always be within max depth"]
        ELSE assign_at_distance(H, H[env].enclosing, name, value,
                                Some(Unwrap(distance) - 1))
    ELSE
        IF H[env].enclosing = 0
        THEN IF name \in DOMAIN H[env].values
             THEN [k |-> "ok", H |-> define(H, env, name, value), err |-> ""]
             ELSE [k |-> "err", H |-> define(H, env, name, value),
                   err |-> "Undefined Variable"]
        ELSE assign_at_distance(H, H[env].enclosing, name, value, distance)

\* Environment::assign
assign(H, locals, env, name, value, index) ==
    assign_at_distance(H, env, name, value, MapGet(locals, index))

\* Environment::resolve, for every pair of the map handed to
\* Interpreter::resolve: insert, overwriting an index already present.
Interpreter_resolve(envLocals, locals) == locals @@ envLocals

\* ------------------------------------------------------------------------
\* resolver.rs.  R.sids is the stack of the names (sid) of the open scopes,
\* R.scopesAt[index] that stack at the moment the reference was resolved and
\* R.writes the inserts into R.locals in the order they were made.

Resolver_new ==
    [locals |-> <<>>, scopes |-> <<>>, function_type |-> None,
     sids |-> <<>>, scopesAt |-> <<>>, writes |-> <<>>]

begin_scope(R, sid) ==
    [R EXCEPT !.scopes = Append(@, <<>>), !.sids = Append(@, sid)]

end_scope(R) ==
    [R EXCEPT !.scopes = SubSeq(@, 1, Len(@) - 1),
              !.sids = SubSeq(@, 1, Len(@) - 1)]

declare(R, name) ==
    IF R.scopes = <<>> THEN R
    ELSE [R EXCEPT !.scopes[Len(R.scopes)] = (name.lexeme :> FALSE) @@ @]

Resolver_define(R, name) ==
    IF R.scopes = <<>> THEN R
    ELSE [R EXCEPT !.scopes[Len(R.scopes)] = (name.lexeme :> TRUE) @@ @]

\* A function declaration that leaves the resolver inside a function.
keep_function_type(R, parent_function) == R

\* `self.function_type = parent_function` at the end of Stmt::Function.
restore_function_type(R, parent_function) ==
    [R EXCEPT !.function_type = parent_function]

\* A depth counted from the outermost scope instead of the innermost.
DepthFromOuter(len, i) == i

\* The depth recorded for a name found in scope i (counted from 0) of len.
Depth(len, i) == len - i - 1

\* HashMap::insert on the resolver's locals.
InsertLocal(R, index, depth) ==
    [R EXCEPT !.locals = (index :> depth) @@ @,
              !.scopesAt = (index :> R.sids) @@ @,
              !.writes = Append(@, <<index, depth>>)]

\* A resolve_local whose loop goes on after the insert: every scope that
\* holds the name inserts its depth, from scope j outward.
RECURSIVE resolve_local_every_scope_from(_, _, _, _)
resolve_local_every_scope_from(R, name, index, j) ==
    IF j = 0 THEN R
    ELSE resolve_local_every_scope_from(
             IF name.lexeme \in DOMAIN R.scopes[j]
             THEN InsertLocal(R, index, Depth(Len(R.scopes), j - 1)) ELSE R,
             name, index, j - 1)

resolve_local_every_scope(R, name, index) ==
    resolve_local_every_scope_from(R, name, index, Len(R.scopes))

\* Resolver::resolve_local: the innermost scope holding the name decides.
resolve_local(R, name, index) ==
    LET len == Len(R.scopes)
        holds == {j \in 1..len : name.lexeme \in DOMAIN R.scopes[j]}
    IN  IF holds = {} THEN R
        ELSE LET j == CHOOSE m \in holds : \A o \in holds : o <= m
             IN  InsertLocal(R, index, Depth(len, j - 1))

\* The check `Some(&false) == last.get(&name.lexeme)` of Expr::Variable.
InOwnInitializer(R, name) ==
    /\ R.scopes # <<>>
    /\ MapGet(R.scopes[Len(R.scopes)], name.lexeme) = Some(FALSE)

RECURSIVE resolve_expr(_, _)
RECURSIVE resolve_exprs(_, _, _)
resolve_exprs(exprs, i, R) ==
    IF i > Len(exprs) THEN [ok |-> TRUE, R |-> R, err |-> ""]
    ELSE LET r == resolve_expr(exprs[i], R)
         IN  IF ~r.ok THEN r ELSE resolve_exprs(exprs, i + 1, r.R)

resolve_expr(expr, R) ==
    CASE expr.e = "Access" -> resolve_expr(expr.position, R)
      [] expr.e \in {"Binary", "Logical"} ->
            LET l == resolve_expr(expr.left, R)
            IN  IF ~l.ok THEN l ELSE resolve_expr(expr.right, l.R)
      [] expr.e = "Grouping" -> resolve_expr(expr.expr, R)
      [] expr.e = "Call" ->
            LET c == resolve_expr(expr.callee, R)
            IN  IF ~c.ok THEN c ELSE resolve_exprs(expr.args, 1, c.R)
      [] expr.e = "Literal" -> [ok |-> TRUE, R |-> R, err |-> ""]
      [] expr.e = "Unary" -> resolve_expr(expr.right, R)
      [] expr.e = "Variable" ->
            IF InOwnInitializer(R, expr.name)
            THEN [ok |-> FALSE, R |-> R,
                  err |-> "Tried to read local variable in own initialization"]
            ELSE [ok |-> TRUE, R |-> resolve_local(R, expr.name, expr.index),
                  err |-> ""]
      [] expr.e = "Assignment" ->
            LET v == resolve_expr(expr.value, R)
            IN  IF ~v.ok THEN v
                ELSE LET R1 == resolve_local(v.R, expr.name, expr.index)
                     IN  IF expr.position = NoExpr
                         THEN [ok |-> TRUE, R |-> R1, err |-> ""]
                         ELSE resolve_expr(expr.position, R1)
      [] expr.e = "Array" -> resolve_exprs(expr.elements, 1, R)

RECURSIVE resolve_statement(_, _)
RECURSIVE Resolver_resolve(_, _, _)
\* Resolver::resolve: the loop over the statements, from statement i on.
Resolver_resolve(statements, i, R) ==
    IF i > Len(statements) THEN [ok |-> TRUE, R |-> R, err |-> ""]
    ELSE LET r == resolve_statement(statements[i], R)
         IN  IF ~r.ok THEN r ELSE Resolver_resolve(statements, i + 1, r.R)

resolve_statement(stmt, R) ==
    CASE stmt.s = "Expression" -> resolve_expr(stmt.expr, R)
      [] stmt.s = "If" ->
            LET c == resolve_expr(stmt.condition, R)
            IN  IF ~c.ok THEN c
                ELSE LET th == resolve_statement(stmt.then_branch, c.R)
                     IN  IF ~th.ok \/ stmt.else_branch = NoStmt THEN th
                         ELSE resolve_statement(stmt.else_branch, th.R)
      [] stmt.s = "Return" ->
            IF R.function_type = None
            THEN [ok |-> FALSE, R |-> R, err |-> "Can't return from global scope"]
            ELSE IF stmt.value = NoExpr THEN [ok |-> TRUE, R |-> R, err |-> ""]
            ELSE resolve_expr(stmt.value, R)
      [] stmt.s = "Var" ->
            LET R1 == declare(R, stmt.name)
                i == IF stmt.initializer = NoExpr
                     THEN [ok |-> TRUE, R |-> R1, err |-> ""]
                     ELSE resolve_expr(stmt.initializer, R1)
            IN  IF ~i.ok THEN i
                ELSE [ok |-> TRUE, R |-> Resolver_define(i.R, stmt.name), err |-> ""]
      [] stmt.s = "While" ->
            LET c == resolve_expr(stmt.condition, R)
            IN  IF ~c.ok THEN c ELSE resolve_statement(stmt.body, c.R)
      [] stmt.s = "Block" ->
            LET b == Resolver_resolve(stmt.statements, 1, begin_scope(R, stmt.sid))
            IN  IF ~b.ok THEN b
                ELSE [ok |-> TRUE, R |-> end_scope(b.R), err |-> ""]
      [] stmt.s = "Function" ->
            LET parent_function == R.function_type
                R1 == [R EXCEPT !.function_type = Some("Function")]
                R2 == Resolver_define(declare(R1, stmt.name), stmt.name)
                R3 == begin_scope(R2, stmt.sid)
                R4 == [R3 EXCEPT !.scopes[Len(R3.scopes)] =
                          [p \in {stmt.params[q].lexeme : q \in 1..Len(stmt.params)}
                              |-> TRUE]]
                b == Resolver_resolve(stmt.body, 1, R4)
            IN  IF ~b.ok THEN b
                ELSE [ok |-> TRUE,
                      R |-> restore_function_type(end_scope(b.R), parent_function),
                      err |-> ""]

\* ------------------------------------------------------------------------
\* The evaluator.  A world W holds the heap H, the interpreter's index to
\* depth map locals, the lines printed (out), the remaining fuel, and the
\* history: the event log, the number of calls made so far (calls), the
\* input whose code is running (origin) and, per index of locals, the input
\* whose resolution recorded it (owner).
\* An evaluation result is [k, v, W, err] and an execution result is
\* [k, I, W, err], where k is "ok", "err" (the Err of a Result), "panic",
\* "fuel" (the fuel ran out: the execution does not end within the bound) or
\* "host" (a call of a host function the model leaves out).

EOk(v, W) == [k |-> "ok", v |-> v, W |-> W, err |-> ""]

EErr(msg, W) == [k |-> "err", v |-> Nil, W |-> W, err |-> msg]

SOk(I, W) == [k |-> "ok", I |-> I, W |-> W, err |-> ""]

\* A failed evaluation as the result of the statement that asked for it.
SFail(r, I) == [k |-> r.k, I |-> I, W |-> r.W, err |-> r.err]

Log(W, ev) == [W EXCEPT !.log = Append(@, ev)]

\* Interpreter::new_with_env; id numbers the call that made it.
Interpreter_new_with_env(environment, id) ==
    [environment |-> environment, ret |-> None, id |-> id]

\* `n.round() as usize` of an integral f64: the cast saturates at 0.
round_as_usize(n) == IF n < 0 THEN 0 ELSE n

\* Expr::evaluate and Interpreter::execute call each other through every
\* expression and statement form; the recursion is tied in one operator.
RECURSIVE Dispatch(_, _, _, _)

\* expr.evaluate(&environment)
Eval(expr, env, W) == Dispatch("evaluate", expr, env, W)

\* interpreter.execute(statement)
Exec(stmt, I, W) == Dispatch("execute", stmt, I, W)

RECURSIVE EvalList(_, _, _, _, _)
\* The loops of evaluate_call and evaluate_array over the expressions.
EvalList(exprs, i, acc, env, W) ==
    IF i > Len(exprs) THEN EOk(acc, W)
    ELSE LET r == Eval(exprs[i], env, W)
         IN  IF r.k # "ok" THEN r
             ELSE EvalList(exprs, i + 1, Append(acc, r.v), env, r.W)

\* Expr::Variable of Expr::evaluate.
evaluate_variable(env, name, index, W) ==
    LET r == get(W.H, W.locals, env, name.lexeme, index)
        W1 == IF index \in DOMAIN W.locals
              THEN Log(W, [e |-> "lookup", name |-> name.lexeme, index |-> index,
                           distance |-> W.locals[index], env |-> env,
                           origin |-> W.origin, owner |-> W.owner[index]])
              ELSE Log(W, [e |-> "search", name |-> name.lexeme, index |-> index,
                           env |-> env, found |-> r.k = "ok", v |-> r.v,
                           read |-> Outermost(W.H, env),
                           nearest |-> NearestBinding(W.H, env, name.lexeme),
                           H |-> W.H])
    IN  [k |-> r.k, v |-> r.v, W |-> W1, err |-> r.err]

evaluate_unary(env, operator, right, W) ==
    LET r == Eval(right, env, W)
    IN  IF r.k # "ok" THEN r
        ELSE IF operator = "Minus" /\ r.v.t = "Number" THEN EOk(Number(-r.v.n), r.W)
        ELSE IF operator = "Minus" THEN EErr("negation not implemented", r.W)
        ELSE EOk(is_falsy(r.v),
                 Log(r.W, [e |-> "bang", operand |-> r.v, result |-> is_falsy(r.v)]))

\* The match of evaluate_binary on (left, operator, right), arm by arm.
binary_match(left, operator, right, W) ==
    LET nums == left.t = "Number" /\ right.t = "Number"
        x == left.n
        y == right.n
    IN  IF nums /\ operator = "Plus" THEN EOk(Number(x + y), W)
        ELSE IF nums /\ operator = "Minus" THEN EOk(Number(x - y), W)
        ELSE IF nums /\ operator = "Star" THEN EOk(Number(x * y), W)
        ELSE IF nums /\ operator \in {"Slash", "Percent"} THEN
            \* Only the quotients and remainders that stay integral.
            IF y > 0 /\ x >= 0 /\ operator = "Percent" THEN EOk(Number(x % y), W)
            ELSE IF y > 0 /\ x >= 0 /\ x % y = 0 THEN EOk(Number(x \div y), W)
            ELSE [k |-> "host", v |-> Nil, W |-> W, err |-> "not an integer"]
        ELSE IF left.t = "Str" /\ operator = "Plus" /\ right.t = "Str"
             THEN EOk(Str(left.s \o right.s), W)
        ELSE IF nums /\ operator = "Greater" THEN EOk(Boolean(x > y), W)
        ELSE IF nums /\ operator = "GreaterEqual" THEN EOk(Boolean(x >= y), W)
        ELSE IF nums /\ operator = "Less" THEN EOk(Boolean(x < y), W)
        ELSE IF nums /\ operator = "LessEqual" THEN EOk(Boolean(x <= y), W)
        ELSE IF operator = "EqualEqual" THEN EOk(Boolean(LiteralEq(left, right)), W)
        ELSE IF operator = "BangEqual" THEN EOk(Boolean(~LiteralEq(left, right)), W)
        ELSE IF left.t = "Str" /\ operator = "Plus"
             THEN EOk(Str(left.s \o to_string(right)), W)
        ELSE IF operator = "Plus" /\ right.t = "Str"
             THEN EOk(Str(to_string(left) \o right.s), W)
        ELSE EErr("not implemented between", W)

evaluate_binary(env, left, operator, right, W) ==
    LET l == Eval(left, env, W)
    IN  IF l.k # "ok" THEN l
        ELSE LET r == Eval(right, env, l.W)
             IN  IF r.k # "ok" THEN r
                 ELSE LET b == binary_match(l.v, operator, r.v, r.W)
                      IN  [b EXCEPT !.W = Log(@, [e |-> "binary", left |-> l.v,
                                                  operator |-> operator,
                                                  right |-> r.v, k |-> b.k,
                                                  v |-> b.v])]

\* An Array arm that accepts every position from the length on.
assign_array_beyond(array, position, value) ==
    IF position >= Len(array) THEN Some(Append(array, value))
    ELSE Some([array EXCEPT ![position + 1] = value])

\* The Array arm of evaluate_assignment: the new array or the error.
assign_array(array, position, value) ==
    IF position > Len(array) THEN None
    ELSE IF position = Len(array) THEN Some(Append(array, value))
    ELSE Some([array EXCEPT ![position + 1] = value])

\* The Str arm of evaluate_assignment (one byte per character).
assign_string(string, position, value) ==
    IF position > Len(string) THEN None
    ELSE IF position = Len(string) THEN Some(string \o to_string(value))
    ELSE IF Len(to_string(value)) > 1 THEN None
    ELSE Some(SubSeq(string, 1, position) \o to_string(value)
              \o SubSeq(string, position + 2, Len(string)))

\* The write that ends evaluate_assignment: Environment::assign, then Ok.
assign_and_return(env, name, value, index, W) ==
    LET a == assign(W.H, W.locals, env, name.lexeme, value, index)
        W1 == [W EXCEPT !.H = a.H]
        W2 == IF a.k = "err"
              THEN Log(W1, [e |-> "assign_undefined", name |-> name.lexeme])
              ELSE W1
    IN  [k |-> a.k, v |-> IF a.k = "ok" THEN value ELSE Nil, W |-> W2, err |-> a.err]

\* The frames of H2 with every binding that holds the array `was` holding
\* the array `now` instead.
Aliased(H2, was, now) ==
    [f \in DOMAIN H2 |->
        [H2[f] EXCEPT !.values =
            [x \in DOMAIN H2[f].values |->
                IF H2[f].values[x].t = "Array" /\ H2[f].values[x] = was
                THEN now ELSE H2[f].values[x]]]]

\* An indexed assignment under which a copy of an array is the same array:
\* the change shows through every binding that received it.
assign_indexed_shared(env, name, value, position, index, W) ==
    LET pos == round_as_usize(position.n)
        target == get(W.H, W.locals, env, name.lexeme, index)
        n == assign_array(target.v.a, pos, value)
    IN  IF position.t # "Number" \/ target.k # "ok" \/ target.v.t # "Array"
           \/ n = None
        THEN EErr("Attempted to assign at", W)
        ELSE assign_and_return(env, name, Array(Unwrap(n)), index,
                               [W EXCEPT !.H = Aliased(@, target.v,
                                                       Array(Unwrap(n)))])

\* evaluate_assignment with a position, once the value and the position
\* have been evaluated.
assign_indexed(env, name, value, position, index, W) ==
    IF position.t # "Number"
    THEN EErr("Can only index into a list with number", W)
    ELSE LET pos == round_as_usize(position.n)
             target == get(W.H, W.locals, env, name.lexeme, index)
         IN  IF target.k # "ok"
             THEN [k |-> target.k, v |-> Nil, W |-> W, err |-> target.err]
             ELSE IF target.v.t = "Array" THEN
                 LET n == assign_array(target.v.a, pos, value)
                     W1 == Log(W, [e |-> "index_assign", target |-> target.v,
                                   position |-> pos, value |-> value,
                                   result |-> n])
                 IN  IF n = None THEN EErr("Attempted to assign at", W1)
                     ELSE assign_and_return(env, name, Array(Unwrap(n)), index, W1)
             ELSE IF target.v.t = "Str" THEN
                 LET n == assign_string(target.v.s, pos, value)
                     W1 == Log(W, [e |-> "index_assign", target |-> target.v,
                                   position |-> pos, value |-> value,
                                   result |-> n])
                 IN  IF n = None THEN EErr("Attempted to assign at", W1)
                     ELSE assign_and_return(env, name, Str(Unwrap(n)), index, W1)
             ELSE EErr("Cannot index into", W)

evaluate_assignment(env, name, value, position, index, W) ==
    LET v == Eval(value, env, W)
    IN  IF v.k # "ok" THEN v
        ELSE IF position # NoExpr THEN
            LET p == Eval(position, env, v.W)
                r == assign_indexed(env, name, v.v, p.v, index, p.W)
            IN  IF p.k # "ok" THEN p
                ELSE [r EXCEPT !.W = Log(@, [e |-> "indexed",
                                             name |-> name.lexeme, k |-> r.k,
                                             frame |-> FrameRead(p.W.H, env,
                                                          MapGet(p.W.locals, index)),
                                             before |-> p.W.H,
                                             after |-> r.W.H])]
        ELSE assign_and_return(env, name, v.v, index, v.W)

\* A logical operator that evaluates both operands before it chooses.
evaluate_logical_eager(env, left, operator, right, W) ==
    LET l == Eval(left, env, W)
    IN  IF l.k # "ok" THEN l
        ELSE LET r == Eval(right, env, l.W)
             IN  IF r.k # "ok" THEN r
                 ELSE IF operator = "Or" /\ is_truthy(l.v) THEN EOk(l.v, r.W)
                 ELSE IF operator # "Or" /\ ~is_truthy(l.v) THEN EOk(l.v, r.W)
                 ELSE r

evaluate_logical(env, left, operator, right, W) ==
    LET l == Eval(left, env, W)
    IN  IF l.k # "ok" THEN l
        ELSE IF operator = "Or" /\ is_truthy(l.v) THEN l
        ELSE IF operator # "Or" /\ ~is_truthy(l.v) THEN l
        ELSE Eval(right, env, l.W)

evaluate_array(env, elements, W) ==
    LET r == EvalList(elements, 1, <<>>, env, W)
    IN  IF r.k # "ok" THEN r ELSE EOk(Array(r.v), r.W)

\* array.get(pos) and string.chars().nth(pos) of evaluate_access.
nth(target, pos) ==
    IF target.t = "Array"
    THEN IF pos < Len(target.a) THEN Some(target.a[pos + 1]) ELSE None
    ELSE IF target.t = "Str"
    THEN IF pos < Len(target.s) THEN Some(Str(<<target.s[pos + 1]>>)) ELSE None
    ELSE None

evaluate_access(env, name, position, index, W) ==
    LET p == Eval(position, env, W)
    IN  IF p.k # "ok" THEN p
        ELSE IF p.v.t # "Number" THEN EErr("Cannot use type to index a list", p.W)
        ELSE LET pos == round_as_usize(p.v.n)
                 g == get(p.W.H, p.W.locals, env, name.lexeme, index)
                 W1 == Log(p.W, [e |-> "access", name |-> name.lexeme, env |-> env,
                                 position |-> pos, k |-> g.k,
                                 number |-> p.v.n,
                                 target |-> IF g.k = "ok" THEN g.v ELSE Nil,
                                 result |-> IF g.k = "ok" THEN nth(g.v, pos)
                                            ELSE None,
                                 read |-> FrameRead(p.W.H, env,
                                                    MapGet(p.W.locals, index)),
                                 nearest |-> NearestBinding(p.W.H, env,
                                                            name.lexeme)])
             IN  IF g.k # "ok" THEN [k |-> g.k, v |-> Nil, W |-> W1, err |-> g.err]
                 ELSE IF g.v.t = "Array" THEN
                     IF IsSome(nth(g.v, pos)) THEN EOk(Unwrap(nth(g.v, pos)), W1)
                     ELSE EErr("Attempted to get element from array", W1)
                 ELSE IF g.v.t = "Str" THEN
                     IF IsSome(nth(g.v, pos)) THEN EOk(Unwrap(nth(g.v, pos)), W1)
                     ELSE EErr("Attempted to get element from string", W1)
                 ELSE EErr("Cannot index into type", W1)

\* native.rs: print writes the stringified argument; the other host
\* functions (clock, clear, input, parse) are left to the host.
native_fun(fun, arguments, W) ==
    IF fun = "print"
    THEN EOk(Nil, [W EXCEPT !.out = Append(@, to_string(arguments[1]))])
    ELSE [k |-> "host", v |-> Nil, W |-> W, err |-> fun]

\* A count check that lets a call with too few arguments through.
arity_exceeded(arguments, arity) == Len(arguments) > arity

\* `arguments.len() != arity` of call_function and call_native.
arity_mismatch(arguments, arity) == Len(arguments) # arity

call_native(f, arguments, W) ==
    IF arity_mismatch(arguments, f.arity)
    THEN EErr("Native function expected arguments but got",
              Log(W, [e |-> "arity_error", native |-> TRUE, name |-> f.name,
                      expected |-> f.arity, got |-> Len(arguments)]))
    ELSE LET r == native_fun(f.fun, arguments, W)
         IN  [r EXCEPT !.W = Log(@, [e |-> "native", name |-> f.name,
                                     arguments |-> arguments])]

\* A call frame that encloses the caller's frame (dynamic scoping).
CallParentCaller(captured, caller) == caller

\* The frame that call_function encloses: the callable's captured
\* environment (the caller's frame is not handed to call_function at all).
CallParent(captured, caller) == captured

RECURSIVE DefineParams(_, _, _, _, _)
DefineParams(H, env, params, arguments, i) ==
    IF i > Len(arguments) THEN H
    ELSE DefineParams(define(H, env, params[i].lexeme, arguments[i]), env,
                      params, arguments, i + 1)

RECURSIVE Interpret(_, _, _, _)
\* Interpreter::interpret: the loop over the statements, from statement i.
Interpret(statements, i, I, W) ==
    IF i > Len(statements) THEN SOk(I, W)
    ELSE LET r == Exec(statements[i], I, W)
         IN  IF r.k # "ok" THEN r ELSE Interpret(statements, i + 1, r.I, r.W)

RECURSIVE RunBody(_, _, _, _)
\* The loop of call_function over the body, polling interpreter.ret.
RunBody(body, i, I, W) ==
    IF i > Len(body) THEN EOk(Nil, W)
    ELSE LET r == Interpret(<<body[i]>>, 1, I, W)
         IN  IF r.k # "ok" THEN [k |-> r.k, v |-> Nil, W |-> r.W, err |-> r.err]
             ELSE IF IsSome(r.I.ret) THEN EOk(Unwrap(r.I.ret), r.W)
             ELSE RunBody(body, i + 1, r.I, r.W)

call_function(f, arguments, caller, W) ==
    IF arity_mismatch(arguments, f.arity)
    THEN EErr("Function expected arguments but got",
              Log(W, [e |-> "arity_error", native |-> FALSE,
                      name |-> f.name.lexeme, expected |-> f.arity,
                      got |-> Len(arguments)]))
    ELSE IF W.fuel = 0 THEN [k |-> "fuel", v |-> Nil, W |-> W, err |-> "fuel"]
    ELSE LET n == enclose(W.H, CallParent(f.environment, caller), f.sid)
             id == W.calls + 1
             W1 == [W EXCEPT !.H = DefineParams(n.H, n.env, f.params, arguments, 1),
                             !.fuel = @ - 1, !.calls = id, !.origin = f.origin,
                             !.log = Append(@, [e |-> "call", call |-> id,
                                                frame |-> n.env,
                                                captured |-> f.environment,
                                                caller |-> caller,
                                                arity |-> f.arity,
                                                arguments |-> arguments])]
             r == RunBody(f.body, 1, Interpreter_new_with_env(n.env, id), W1)
             W2 == [r.W EXCEPT !.origin = W.origin]
         IN  IF r.k # "ok" THEN [r EXCEPT !.W = W2]
             ELSE EOk(r.v, Log(W2, [e |-> "exit", call |-> id, v |-> r.v]))

evaluate_call(env, callee, args, W) ==
    LET c == Eval(callee, env, W)
    IN  IF c.k # "ok" THEN c
        ELSE LET a == EvalList(args, 1, <<>>, env, c.W)
             IN  IF a.k # "ok" THEN a
                 ELSE IF c.v.t # "Callable" THEN EErr("Could not call", a.W)
                 ELSE IF c.v.c = "LoxFunction" THEN call_function(c.v, a.v, env, a.W)
                 ELSE call_native(c.v, a.v, a.W)

\* Expr::evaluate
evaluate(expr, env, W) ==
    CASE expr.e = "Literal" -> EOk(expr.literal, W)
      [] expr.e = "Grouping" -> Eval(expr.expr, env, W)
      [] expr.e = "Unary" -> evaluate_unary(env, expr.operator, expr.right, W)
      [] expr.e = "Binary" ->
            evaluate_binary(env, expr.left, expr.operator, expr.right, W)
      [] expr.e = "Variable" -> evaluate_variable(env, expr.name, expr.index, W)
      [] expr.e = "Assignment" ->
            evaluate_assignment(env, expr.name, expr.value, expr.position,
                                expr.index, W)
      [] expr.e = "Array" -> evaluate_array(env, expr.elements, W)
      [] expr.e = "Access" ->
            evaluate_access(env, expr.name, expr.position, expr.index, W)
      [] expr.e = "Logical" ->
            evaluate_logical(env, expr.left, expr.operator, expr.right, W)
      [] expr.e = "Call" -> evaluate_call(env, expr.callee, expr.args, W)

RECURSIVE WhileLoop(_, _, _)
\* Stmt::While of Interpreter::execute.
WhileLoop(stmt, I, W) ==
    LET c == Eval(stmt.condition, I.environment, W)
    IN  IF c.k # "ok" THEN SFail(c, I)
        ELSE IF ~is_truthy(c.v) THEN SOk(I, c.W)
        ELSE IF c.W.fuel = 0 THEN [k |-> "fuel", I |-> I, W |-> c.W, err |-> "fuel"]
        ELSE LET b == Exec(stmt.body, I, [c.W EXCEPT !.fuel = @ - 1])
             IN  IF b.k # "ok" THEN b ELSE WhileLoop(stmt, b.I, b.W)

\* A block whose `?` comes before the frame is put back.
execute_block_restore_on_ok(stmt, I, W) ==
    LET n == enclose(W.H, I.environment, stmt.sid)
        result == Interpret(stmt.statements, 1, [I EXCEPT !.environment = n.env],
                            [W EXCEPT !.H = n.H])
    IN  IF result.k # "ok" THEN result
        ELSE [result EXCEPT !.I.environment = I.environment]

\* A block that keeps one frame per enclosing frame and goes back into it
\* on every pass.
execute_block_reuse_frame(stmt, I, W) ==
    LET old == {f \in 1..Len(W.H) : /\ W.H[f].enclosing = I.environment
                                    /\ W.H[f].scope = stmt.sid}
        n == IF old = {} THEN enclose(W.H, I.environment, stmt.sid)
             ELSE [H |-> W.H, env |-> CHOOSE f \in old : TRUE]
        result == Interpret(stmt.statements, 1, [I EXCEPT !.environment = n.env],
                            [W EXCEPT !.H = n.H])
    IN  [result EXCEPT !.I.environment = I.environment]

\* A block that runs its statements in the current frame.
execute_block_no_frame(stmt, I, W) == Interpret(stmt.statements, 1, I, W)

\* Stmt::Block of Interpreter::execute: the frame is put back before the
\* result of the statements is inspected.
execute_block(stmt, I, W) ==
    LET n == enclose(W.H, I.environment, stmt.sid)
        old_environment == I.environment
        result == Interpret(stmt.statements, 1, [I EXCEPT !.environment = n.env],
                            [W EXCEPT !.H = n.H])
    IN  [result EXCEPT !.I.environment = old_environment]

\* Stmt::Return of Interpreter::execute.
execute_return(stmt, I, W) ==
    LET r == IF stmt.value = NoExpr THEN EOk(Nil, W)
             ELSE Eval(stmt.value, I.environment, W)
    IN  IF r.k # "ok" THEN SFail(r, I)
        ELSE SOk([I EXCEPT !.ret = Some(r.v)],
                 Log(r.W, [e |-> "return", call |-> I.id, v |-> r.v]))

\* Interpreter::execute
execute(stmt, I, W0) ==
    LET W == Log(W0, [e |-> "stmt", s |-> stmt.s, call |-> I.id])
    IN  CASE stmt.s = "Expression" ->
                LET r == Eval(stmt.expr, I.environment, W)
                IN  IF r.k # "ok" THEN SFail(r, I) ELSE SOk(I, r.W)
          [] stmt.s = "If" ->
                LET c == Eval(stmt.condition, I.environment, W)
                    taken == IF is_truthy(c.v) THEN "then"
                             ELSE IF stmt.else_branch # NoStmt THEN "else"
                             ELSE "none"
                    W1 == Log(c.W, [e |-> "if", condition |-> c.v,
                                    branch |-> taken])
                IN  IF c.k # "ok" THEN SFail(c, I)
                    ELSE IF is_truthy(c.v) THEN Exec(stmt.then_branch, I, W1)
                    ELSE IF stmt.else_branch # NoStmt
                    THEN Exec(stmt.else_branch, I, W1)
                    ELSE SOk(I, W1)
          [] stmt.s = "Var" ->
                LET r == IF stmt.initializer = NoExpr THEN EOk(Nil, W)
                         ELSE Eval(stmt.initializer, I.environment, W)
                IN  IF r.k # "ok" THEN SFail(r, I)
                    ELSE SOk(I, [r.W EXCEPT !.H = define(@, I.environment,
                                                        stmt.name.lexeme, r.v)])
          [] stmt.s = "While" -> WhileLoop(stmt, I, W)
          [] stmt.s = "Block" ->
                LET r == execute_block(stmt, I, W)
                    exit == IF r.k # "ok" THEN r.k
                            ELSE IF r.I.ret # I.ret THEN "return" ELSE "ok"
                IN  [r EXCEPT !.W = Log(@, [e |-> "block", call |-> I.id,
                                            entered |-> I.environment,
                                            left |-> r.I.environment,
                                            exit |-> exit])]
          [] stmt.s = "Function" ->
                LET c == Environment_clone(W.H, I.environment)
                    value == LoxFunction(stmt.name, stmt.params, Len(stmt.params),
                                         stmt.body, c.env, stmt.sid, W.origin)
                IN  SOk(I, [W EXCEPT !.H = define(c.H, I.environment,
                                                  stmt.name.lexeme, value)])
          [] stmt.s = "Return" -> execute_return(stmt, I, W)

Dispatch(what, node, at, W) ==
    IF what = "evaluate" THEN evaluate(node, at, W) ELSE execute(node, at, W)

\* ------------------------------------------------------------------------
\* The inputs: the statement lists Parser::parse returns for the source
\* texts quoted beside them.  Every Variable and Access carries the index
\* Parser::index hands out in Parser::primary, in parse order from 0.

T(lexeme) == Token(lexeme, 1)

Num(n) == ELiteral(Number(n))

Text(chars) == ELiteral(Str(chars))

V(lexeme, index) == EVariable(T(lexeme), index)

Set(lexeme, index, value) == EAssignment(T(lexeme), value, NoExpr, index)

Call0(lexeme, index) == ECall(V(lexeme, index), <<>>)

Call1(lexeme, index, arg) == ECall(V(lexeme, index), <<arg>>)

\* print(arg);
PrintStmt(index, arg) == SExpression(Call1("print", index, arg))

\* The operands of the inputs `print(!operand);`: print is the native.
BangOperands ==
    <<ELiteral(Boolean(TRUE)), ELiteral(Boolean(FALSE)), Num(0), Num(1),
      Text(<<>>), Text(<<"a">>), ELiteral(Nil), EArray(<<>>), EArray(<<Num(0)>>),
      V("print", 1)>>

\* print(!operand);
BangProgram(i) == <<PrintStmt(0, EUnary("Bang", BangOperands[i]))>>

\* fun f() { return 1; print(2); }  print(f());
ReturnDirect ==
    <<SFunction("f", T("f"), <<>>, <<SReturn(Num(1)), PrintStmt(0, Num(2))>>),
      PrintStmt(1, Call0("f", 2))>>

\* fun f() { { return 1; print(2); } print(3); }  print(f());
ReturnInBlock ==
    <<SFunction("f", T("f"), <<>>,
         <<SBlock("b", <<SReturn(Num(1)), PrintStmt(0, Num(2))>>), PrintStmt(1, Num(3))>>),
      PrintStmt(2, Call0("f", 3))>>

\* fun f() { { return 1; return 2; } }  print(f());
ReturnTwice ==
    <<SFunction("f", T("f"), <<>>,
         <<SBlock("b", <<SReturn(Num(1)), SReturn(Num(2))>>)>>),
      PrintStmt(0, Call0("f", 1))>>

\* fun f(x) { if (x) return 1; return 2; }  print(f(true)); print(f(false));
ReturnInIf ==
    <<SFunction("f", T("f"), <<T("x")>>,
         <<SIf(V("x", 0), SReturn(Num(1)), NoStmt), SReturn(Num(2))>>),
      PrintStmt(1, Call1("f", 2, ELiteral(Boolean(TRUE)))),
      PrintStmt(3, Call1("f", 4, ELiteral(Boolean(FALSE))))>>

\* fun f() { while (true) { return 1; } }  print(f());
ReturnInWhile ==
    <<SFunction("f", T("f"), <<>>,
         <<SWhile(ELiteral(Boolean(TRUE)), SBlock("b", <<SReturn(Num(1))>>))>>),
      PrintStmt(0, Call0("f", 1))>>

\* { fun fact(n) { if (n <= 1) return 1; return n * fact(n - 1); }
\*   print(fact(3)); }
Factorial ==
    <<SBlock("top",
        <<SFunction("fact", T("fact"), <<T("n")>>,
            <<SIf(EBinary(V("n", 0), "LessEqual", Num(1)), SReturn(Num(1)), NoStmt),
              SReturn(EBinary(V("n", 1), "Star",
                              Call1("fact", 2, EBinary(V("n", 3), "Minus", Num(1)))))>>),
          PrintStmt(4, Call1("fact", 5, Num(3)))>>)>>

\* var g;
\* fun make() { var n = 0; fun inc() { n = n + 1; return n; }
\*              fun get() { return n; }  g = get; return inc; }
\* var c = make();
\* print(c());            (calls times)
\* print(g());  var d = make();  print(d());  print(c());
CounterProgram(calls) ==
    <<SVar(T("g"), NoExpr),
      SFunction("make", T("make"), <<>>,
         <<SVar(T("n"), Num(0)),
           SFunction("inc", T("inc"), <<>>,
              <<SExpression(Set("n", 0, EBinary(V("n", 1), "Plus", Num(1)))),
                SReturn(V("n", 2))>>),
           SFunction("get", T("get"), <<>>, <<SReturn(V("n", 3))>>),
           SExpression(Set("g", 4, V("get", 5))),
           SReturn(V("inc", 6))>>),
      SVar(T("c"), Call0("make", 7))>>
    \o [i \in 1..calls |-> PrintStmt(6 + 2 * i, Call0("c", 7 + 2 * i))]
    \o <<PrintStmt(8 + 2 * calls, Call0("g", 9 + 2 * calls)),
         SVar(T("d"), Call0("make", 10 + 2 * calls)),
         PrintStmt(11 + 2 * calls, Call0("d", 12 + 2 * calls)),
         PrintStmt(13 + 2 * calls, Call0("c", 14 + 2 * calls))>>

\* { var x = "def"; fun show() { print(x); } { var x = "call"; show(); } }
LexicalBlock ==
    <<SBlock("outer",
        <<SVar(T("x"), Text(<<"d", "e", "f">>)),
          SFunction("show", T("show"), <<>>, <<PrintStmt(0, V("x", 1))>>),
          SBlock("inner",
            <<SVar(T("x"), Text(<<"c", "a", "l", "l">>)),
              SExpression(Call0("show", 2))>>)>>)>>

\* { var x = 1; fun show() { return x; } fun caller(x) { return show(); }
\*   print(caller(2)); }
LexicalParam ==
    <<SBlock("outer",
        <<SVar(T("x"), Num(1)),
          SFunction("show", T("show"), <<>>, <<SReturn(V("x", 0))>>),
          SFunction("caller", T("caller"), <<T("x")>>, <<SReturn(Call0("show", 1))>>),
          PrintStmt(2, Call1("caller", 3, Num(2)))>>)>>

\* { var a = 1;
\*   { var b = 2; fun f() { return a + b; } { var a = 5; print(f()); } } }
DeepClosure ==
    <<SBlock("o",
        <<SVar(T("a"), Num(1)),
          SBlock("m",
            <<SVar(T("b"), Num(2)),
              SFunction("f", T("f"), <<>>,
                 <<SReturn(EBinary(V("a", 0), "Plus", V("b", 1)))>>),
              SBlock("i", <<SVar(T("a"), Num(5)),
                            PrintStmt(2, Call0("f", 3))>>)>>)>>)>>

\* var a = 1; { var a = 2; a = 3; print(a); } print(a);
ShadowGlobal ==
    <<SVar(T("a"), Num(1)),
      SBlock("b", <<SVar(T("a"), Num(2)), SExpression(Set("a", 0, Num(3))),
                    PrintStmt(1, V("a", 2))>>),
      PrintStmt(3, V("a", 4))>>

\* { var a = 1; { var a = 2; a = 3; print(a); } print(a); }
ShadowBlock ==
    <<SBlock("o",
        <<SVar(T("a"), Num(1)),
          SBlock("b", <<SVar(T("a"), Num(2)), SExpression(Set("a", 0, Num(3))),
                        PrintStmt(1, V("a", 2))>>),
          PrintStmt(3, V("a", 4))>>)>>

\* fun f(a) { { var a = 2; a = 3; print(a); } print(a); }  f(1);
ShadowParam ==
    <<SFunction("f", T("f"), <<T("a")>>,
         <<SBlock("b", <<SVar(T("a"), Num(2)), SExpression(Set("a", 0, Num(3))),
                         PrintStmt(1, V("a", 2))>>),
           PrintStmt(3, V("a", 4))>>),
      SExpression(Call1("f", 5, Num(1)))>>

\* var a = a;
SelfInitTop == <<SVar(T("a"), V("a", 0))>>

\* { var a = a; }
SelfInitBlock == <<SBlock("b", <<SVar(T("a"), V("a", 0))>>)>>

\* fun f() { var a = 1 + a; }
SelfInitFunction ==
    <<SFunction("f", T("f"), <<>>,
         <<SVar(T("a"), EBinary(Num(1), "Plus", V("a", 0)))>>)>>

\* var a = 1;
DeclareA == <<SVar(T("a"), Num(1))>>

\* x = 5;
AssignUndeclared == <<SExpression(Set("x", 0, Num(5)))>>

\* print(x);
ReadX == <<PrintStmt(0, V("x", 1))>>

\* { var a = [1, 2]; print(a[0]); }
AccessLocal ==
    <<SBlock("b", <<SVar(T("a"), EArray(<<Num(1), Num(2)>>)),
                    PrintStmt(0, EAccess(T("a"), Num(0), 1))>>)>>

\* fun f(a) { return a[1]; }  print(f("xy"));
AccessParam ==
    <<SFunction("f", T("f"), <<T("a")>>, <<SReturn(EAccess(T("a"), Num(1), 0))>>),
      PrintStmt(1, Call1("f", 2, Text(<<"x", "y">>)))>>

\* var a = [9]; { var a = [1]; print(a[0]); }
AccessShadowed ==
    <<SVar(T("a"), EArray(<<Num(9)>>)),
      SBlock("b", <<SVar(T("a"), EArray(<<Num(1)>>)),
                    PrintStmt(0, EAccess(T("a"), Num(0), 1))>>)>>

\* var a = [1, 2]; print(a[1]);
AccessGlobal ==
    <<SVar(T("a"), EArray(<<Num(1), Num(2)>>)),
      PrintStmt(0, EAccess(T("a"), Num(1), 1))>>

\* { var a = 1; { print(a); } }
NestedRead ==
    <<SBlock("o", <<SVar(T("a"), Num(1)), SBlock("i", <<PrintStmt(0, V("a", 1))>>)>>)>>

\* var x = 7; print(x);
GlobalRead == <<SVar(T("x"), Num(7)), PrintStmt(0, V("x", 1))>>

\* { var a = 1; { print(zz); } print(a); }
BlockError ==
    <<SBlock("o", <<SVar(T("a"), Num(1)),
                    SBlock("i", <<PrintStmt(0, V("zz", 1))>>),
                    PrintStmt(2, V("a", 3))>>)>>

\* fun f() { { print(zz); } }  f();
BlockErrorInCall ==
    <<SFunction("f", T("f"), <<>>, <<SBlock("b", <<PrintStmt(0, V("zz", 1))>>)>>),
      SExpression(Call0("f", 2))>>

\* The number of parameters of f in the inputs ArityProgram(n).
ArityOfF == Len(<<"a", "b">>)

\* The most arguments an input ArityProgram(n) passes.
MaxArguments == 3

\* fun f(a, b) { print(7); }  f(1, ..., n);
ArityProgram(n) ==
    <<SFunction("f", T("f"), <<T("a"), T("b")>>, <<PrintStmt(0, Num(7))>>),
      SExpression(ECall(V("f", 1), [i \in 1..n |-> Num(i)]))>>

\* print(1, 2);   clock(1);   parse(1);   input();
ArityNativeProgram(i) ==
    <<SExpression(ECall(V(<<"print", "clock", "parse", "input">>[i], 0),
                        <<<<Num(1), Num(2)>>, <<Num(1)>>, <<Num(1)>>, <<>>>>[i]))>>

\* The greatest index the inputs assign at and read from.
MaxIndex == 4

\* The index expression of member i: -1 is written as the negation of 1.
IndexExpr(i) == IF i < 0 THEN EUnary("Minus", Num(-i)) ELSE Num(i)

\* name[position] = value
SetAt(lexeme, index, position, value) ==
    EAssignment(T(lexeme), value, position, index)

\* var a = [1, 2]; a[i] = 9; print(a);
ArrayAssignGlobal(i) ==
    <<SVar(T("a"), EArray(<<Num(1), Num(2)>>)),
      SExpression(SetAt("a", 0, IndexExpr(i), Num(9))),
      PrintStmt(1, V("a", 2))>>

\* { var a = [1, 2]; a[i] = 9; print(a); }
ArrayAssignLocal(i) == <<SBlock("b", ArrayAssignGlobal(i))>>

\* The values the inputs StringAssign assign: "c", "cd", "", 5, 12.
StringValues == <<Text(<<"c">>), Text(<<"c", "d">>), Text(<<>>), Num(5), Num(12)>>

\* The position and the value of member k of the inputs StringAssign.
StringAssignIndex(k) == k \div Len(StringValues)

StringAssignValue(k) == StringValues[(k % Len(StringValues)) + 1]

\* var s = "ab"; s[i] = v; print(s);
StringAssign(k) ==
    <<SVar(T("s"), Text(<<"a", "b">>)),
      SExpression(SetAt("s", 0, Num(StringAssignIndex(k)), StringAssignValue(k))),
      PrintStmt(1, V("s", 2))>>

\* var a = [1, 2]; print(a[i]);
ArrayRead(i) ==
    <<SVar(T("a"), EArray(<<Num(1), Num(2)>>)),
      PrintStmt(0, EAccess(T("a"), IndexExpr(i), 1))>>

\* var s = "ab"; print(s[i]);
StringRead(i) ==
    <<SVar(T("s"), Text(<<"a", "b">>)),
      PrintStmt(0, EAccess(T("s"), IndexExpr(i), 1))>>

\* The operands of the inputs BinaryProgram: 0, 1, "1", "", true, false,
\* nil, [1], ["1"], [], print, clock.
BinaryOperands ==
    <<Num(0), Num(1), Text(<<"1">>), Text(<<>>), ELiteral(Boolean(TRUE)),
      ELiteral(Boolean(FALSE)), ELiteral(Nil), EArray(<<Num(1)>>),
      EArray(<<Text(<<"1">>)>>), EArray(<<>>), V("print", 0), V("clock", 0)>>

\* The operand with the index its place in the input gives it.
Indexed(expr, index) ==
    IF expr.e = "Variable" THEN [expr EXCEPT !.index = index] ELSE expr

\* How many indices Parser::primary hands out for the operand.
IndicesOf(expr) == IF expr.e = "Variable" THEN 1 ELSE 0

\* print(left operator right);  with the first index at base.
PrintBinary(left, operator, right, base) ==
    PrintStmt(base, EBinary(Indexed(left, base + 1), operator,
                            Indexed(right, base + 1 + IndicesOf(left))))

\* print(l == r); print(l != r); print(l + r);
BinaryProgram(k) ==
    LET left == BinaryOperands[(k \div Len(BinaryOperands)) + 1]
        right == BinaryOperands[(k % Len(BinaryOperands)) + 1]
        each == 1 + IndicesOf(left) + IndicesOf(right)
    IN  <<PrintBinary(left, "EqualEqual", right, 0),
          PrintBinary(left, "BangEqual", right, each),
          PrintBinary(left, "Plus", right, each + each)>>

\* The left operands of the inputs LogicalProgram: 0, 1, "", "a", true,
\* false, nil, [], [0]; the right operands: "r", 0; the operators.
LogicalLefts ==
    <<Num(0), Num(1), Text(<<>>), Text(<<"a">>), ELiteral(Boolean(TRUE)),
      ELiteral(Boolean(FALSE)), ELiteral(Nil), EArray(<<>>), EArray(<<Num(0)>>)>>

LogicalRights == <<Text(<<"r">>), Num(0)>>

LogicalOperators == <<"Or", "And">>

LogicalLeft(k) == LogicalLefts[(k \div (Len(LogicalRights) * Len(LogicalOperators))) + 1]

LogicalRight(k) == LogicalRights[((k \div Len(LogicalOperators)) % Len(LogicalRights)) + 1]

LogicalOperator(k) == LogicalOperators[(k % Len(LogicalOperators)) + 1]

\* var n = 0; var m = 0;
\* fun l() { n = n + 1; return L; }  fun r() { m = m + 1; return R; }
\* print(l() op r()); print(n); print(m);
LogicalProgram(k) ==
    <<SVar(T("n"), Num(0)),
      SVar(T("m"), Num(0)),
      SFunction("l", T("l"), <<>>,
         <<SExpression(Set("n", 0, EBinary(V("n", 1), "Plus", Num(1)))),
           SReturn(LogicalLeft(k))>>),
      SFunction("r", T("r"), <<>>,
         <<SExpression(Set("m", 2, EBinary(V("m", 3), "Plus", Num(1)))),
           SReturn(LogicalRight(k))>>),
      PrintStmt(4, ELogical(Call0("l", 5), LogicalOperator(k), Call0("r", 6))),
      PrintStmt(7, V("n", 8)),
      PrintStmt(9, V("m", 10))>>

\* The values of the condition in the inputs IfProgram: 0, 1, "", "a",
\* true, false, nil, [], [0], print (a native), c (a user function).
IfValues ==
    <<Num(0), Num(1), Text(<<>>), Text(<<"a">>), ELiteral(Boolean(TRUE)),
      ELiteral(Boolean(FALSE)), ELiteral(Nil), EArray(<<>>), EArray(<<Num(0)>>),
      V("print", 2), V("c", 2)>>

IfValue(k) == IfValues[(k \div 2) + 1]

IfHasElse(k) == k % 2 = 1

\* var n = 0;  fun c() { n = n + 1; return V; }
\* if (c()) print("t"); else print("e");   (or without the else)
\* print(n);
IfProgram(k) ==
    LET base == 2 + IndicesOf(IfValue(k))
        after == base + (IF IfHasElse(k) THEN 3 ELSE 2)
    IN  <<SVar(T("n"), Num(0)),
          SFunction("c", T("c"), <<>>,
             <<SExpression(Set("n", 0, EBinary(V("n", 1), "Plus", Num(1)))),
               SReturn(IfValue(k))>>),
          SIf(Call0("c", base),
              PrintStmt(base + 1, Text(<<"t">>)),
              IF IfHasElse(k) THEN PrintStmt(base + 2, Text(<<"e">>)) ELSE NoStmt),
          PrintStmt(after, V("n", after + 1))>>

\* var y = 1; { var a = 1; print(a); var b = b; }
ResolveFailLate ==
    <<SVar(T("y"), Num(1)),
      SBlock("b", <<SVar(T("a"), Num(1)),
                    PrintStmt(0, V("a", 1)),
                    SVar(T("b"), V("b", 2))>>)>>

\* The inputs that place a Return outside and inside function bodies:
\*  1  return 1;
\*  2  { return 1; }
\*  3  if (true) return 1;
\*  4  while (false) return 1;
\*  5  fun f() { return 1; } return 2;
\*  6  fun f() { fun g() { return 1; } return 2; } print(f());
\*  7  fun f() { fun g() { return 1; } } return 2;
\*  8  fun f() { if (true) { while (true) { return 1; } } } print(f());
\*  9  return;
\* 10  fun f() { return; } print(f());
\* 11  { fun f() { return 1; } return 2; }
ReturnPrograms ==
    <<
      <<SReturn(Num(1))>>,
      <<SBlock("b", <<SReturn(Num(1))>>)>>,
      <<SIf(ELiteral(Boolean(TRUE)), SReturn(Num(1)), NoStmt)>>,
      <<SWhile(ELiteral(Boolean(FALSE)), SReturn(Num(1)))>>,
      <<SFunction("f", T("f"), <<>>, <<SReturn(Num(1))>>), SReturn(Num(2))>>,
      <<SFunction("f", T("f"), <<>>,
           <<SFunction("g", T("g"), <<>>, <<SReturn(Num(1))>>), SReturn(Num(2))>>),
        PrintStmt(0, Call0("f", 1))>>,
      <<SFunction("f", T("f"), <<>>,
           <<SFunction("g", T("g"), <<>>, <<SReturn(Num(1))>>)>>),
        SReturn(Num(2))>>,
      <<SFunction("f", T("f"), <<>>,
           <<SIf(ELiteral(Boolean(TRUE)),
                 SBlock("t", <<SWhile(ELiteral(Boolean(TRUE)),
                                      SBlock("w", <<SReturn(Num(1))>>))>>),
                 NoStmt)>>),
        PrintStmt(0, Call0("f", 1))>>,
      <<SReturn(NoExpr)>>,
      <<SFunction("f", T("f"), <<>>, <<SReturn(NoExpr)>>),
        PrintStmt(0, Call0("f", 1))>>,
      <<SBlock("b", <<SFunction("f", T("f"), <<>>, <<SReturn(Num(1))>>),
                      SReturn(Num(2))>>)>>
    >>

\* var x = 7; { var a = 1; { print(a); } }
GlobalAndNested ==
    <<SVar(T("x"), Num(7)),
      SBlock("o", <<SVar(T("a"), Num(1)), SBlock("i", <<PrintStmt(0, V("a", 1))>>)>>)>>

\* { fun f() { print(a); } var a = 1; f(); }
LateLocal ==
    <<SBlock("b", <<SFunction("f", T("f"), <<>>, <<PrintStmt(0, V("a", 1))>>),
                    SVar(T("a"), Num(1)),
                    SExpression(Call0("f", 2))>>)>>

\* fun f() {} var g = f; fun f(params) { body } print(g == f);
\* with the second declaration of f on the given line.
RedeclaredF(line, params, body) ==
    <<SFunction("f1", T("f"), <<>>, <<>>),
      SVar(T("g"), V("f", 0)),
      SFunction("f2", Token("f", line), params, body),
      PrintStmt(1, EBinary(V("g", 2), "EqualEqual", V("f", 3)))>>

\* The inputs that compare callables:
\*  1  fun f() {} var g = f; fun f() {} print(g == f);
\*  2  the same, the second `fun f() {}` on line 2
\*  3  fun f() {} var g = f; fun f(a) {} print(g == f);
\*  4  fun f() {} var g = f; fun f() { print(2); } print(g == f);
\*  5  fun f() {} fun h() {} print(f == h);
\*  6  var n = clock; fun clock() {} print(n == clock);
\*  7  fun make() { fun inner() {} return inner; } print(make() == make());
CallableEqPrograms ==
    <<RedeclaredF(1, <<>>, <<>>),
      RedeclaredF(2, <<>>, <<>>),
      RedeclaredF(1, <<T("a")>>, <<>>),
      RedeclaredF(1, <<>>, <<PrintStmt(0, Num(2))>>),
      <<SFunction("f", T("f"), <<>>, <<>>),
        SFunction("h", T("h"), <<>>, <<>>),
        PrintStmt(0, EBinary(V("f", 1), "EqualEqual", V("h", 2)))>>,
      <<SVar(T("n"), V("clock", 0)),
        SFunction("c", T("clock"), <<>>, <<>>),
        PrintStmt(1, EBinary(V("n", 2), "EqualEqual", V("clock", 3)))>>,
      <<SFunction("make", T("make"), <<>>,
           <<SFunction("inner", T("inner"), <<>>, <<>>), SReturn(V("inner", 0))>>),
        PrintStmt(1, EBinary(Call0("make", 2), "EqualEqual", Call0("make", 3)))>>
    >>

\* fun f() { var i = 0; while (i < 3) { i = i + 1; return i; } } print(f());
ReturnInCountedLoop ==
    <<SFunction("f", T("f"), <<>>,
         <<SVar(T("i"), Num(0)),
           SWhile(EBinary(V("i", 0), "Less", Num(3)),
                  SBlock("b", <<SExpression(Set("i", 1, EBinary(V("i", 2), "Plus",
                                                                Num(1)))),
                                SReturn(V("i", 3))>>))>>),
      PrintStmt(4, Call0("f", 5))>>

\* var i = 0; var f0; var f1;
\* while (i < 2) { var n = i; fun inc() { n = n + 10; return n; }
\*                 if (i == 0) f0 = inc; else f1 = inc;  i = i + 1; }
\* print(f0()); print(f1()); print(f0());
WhileClosures ==
    <<SVar(T("i"), Num(0)), SVar(T("f0"), NoExpr), SVar(T("f1"), NoExpr),
      SWhile(EBinary(V("i", 0), "Less", Num(2)),
        SBlock("w",
          <<SVar(T("n"), V("i", 1)),
            SFunction("inc", T("inc"), <<>>,
               <<SExpression(Set("n", 2, EBinary(V("n", 3), "Plus", Num(10)))),
                 SReturn(V("n", 4))>>),
            SIf(EBinary(V("i", 5), "EqualEqual", Num(0)),
                SExpression(Set("f0", 6, V("inc", 7))),
                SExpression(Set("f1", 8, V("inc", 9)))),
            SExpression(Set("i", 10, EBinary(V("i", 11), "Plus", Num(1))))>>)),
      PrintStmt(12, Call0("f0", 13)),
      PrintStmt(14, Call0("f1", 15)),
      PrintStmt(16, Call0("f0", 17))>>

\* var i = 0; while (i < 2) { if (i == 1) print(n); var n = i; i = i + 1; }
WhileLocalNextPass ==
    <<SVar(T("i"), Num(0)),
      SWhile(EBinary(V("i", 0), "Less", Num(2)),
        SBlock("w",
          <<SIf(EBinary(V("i", 1), "EqualEqual", Num(1)),
                PrintStmt(2, V("n", 3)), NoStmt),
            SVar(T("n"), V("i", 4)),
            SExpression(Set("i", 5, EBinary(V("i", 6), "Plus", Num(1))))>>))>>

\* var i = 0; while (i < 1) { var n = i; i = i + 1; } print(n);
WhileLocalAfter ==
    <<SVar(T("i"), Num(0)),
      SWhile(EBinary(V("i", 0), "Less", Num(1)),
        SBlock("w",
          <<SVar(T("n"), V("i", 1)),
            SExpression(Set("i", 2, EBinary(V("i", 3), "Plus", Num(1))))>>)),
      PrintStmt(4, V("n", 5))>>

\* The inputs that copy an array and then assign into it:
\*  1  var a = [1, 2]; var b = a; a[0] = 9; print(a); print(b);
\*  2  fun f(p) { p[0] = 9; print(p); } var a = [1, 2]; f(a); print(a);
\*  3  var a = [1]; var c = [a]; a[0] = 9; print(a); print(c);
\*  4  var a = [1]; { var a = [2]; a[0] = 9; print(a); } print(a);
\*  5  var a = [1]; var b = a; a[5] = 9;
\*  6  var a = [1]; var b = a; a["x"] = 9;
\*  7  var n = 5; n[0] = 1;
\*  8  var a = [1]; var b = a; b[1] = 2; print(a); print(b);
CopiedArrayPrograms ==
    <<
      <<SVar(T("a"), EArray(<<Num(1), Num(2)>>)), SVar(T("b"), V("a", 0)),
        SExpression(SetAt("a", 1, Num(0), Num(9))),
        PrintStmt(2, V("a", 3)), PrintStmt(4, V("b", 5))>>,
      <<SFunction("f", T("f"), <<T("p")>>,
           <<SExpression(SetAt("p", 0, Num(0), Num(9))), PrintStmt(1, V("p", 2))>>),
        SVar(T("a"), EArray(<<Num(1), Num(2)>>)),
        SExpression(Call1("f", 3, V("a", 4))),
        PrintStmt(5, V("a", 6))>>,
      <<SVar(T("a"), EArray(<<Num(1)>>)), SVar(T("c"), EArray(<<V("a", 0)>>)),
        SExpression(SetAt("a", 1, Num(0), Num(9))),
        PrintStmt(2, V("a", 3)), PrintStmt(4, V("c", 5))>>,
      <<SVar(T("a"), EArray(<<Num(1)>>)),
        SBlock("b", <<SVar(T("a"), EArray(<<Num(2)>>)),
                      SExpression(SetAt("a", 0, Num(0), Num(9))),
                      PrintStmt(1, V("a", 2))>>),
        PrintStmt(3, V("a", 4))>>,
      <<SVar(T("a"), EArray(<<Num(1)>>)), SVar(T("b"), V("a", 0)),
        SExpression(SetAt("a", 1, Num(5), Num(9)))>>,
      <<SVar(T("a"), EArray(<<Num(1)>>)), SVar(T("b"), V("a", 0)),
        SExpression(SetAt("a", 1, Text(<<"x">>), Num(9)))>>,
      <<SVar(T("n"), Num(5)), SExpression(SetAt("n", 0, Num(0), Num(1)))>>,
      <<SVar(T("a"), EArray(<<Num(1)>>)), SVar(T("b"), V("a", 0)),
        SExpression(SetAt("b", 1, Num(1), Num(2))),
        PrintStmt(2, V("a", 3)), PrintStmt(4, V("b", 5))>>
    >>

\* What the inputs CopiedArrayPrograms print when run to the end.
CopiedArrayOutputs ==
    <<
      <<Array(<<Number(9), Number(2)>>), Array(<<Number(1), Number(2)>>)>>,
      <<Array(<<Number(9), Number(2)>>), Array(<<Number(1), Number(2)>>)>>,
      <<Array(<<Number(9)>>), Array(<<Array(<<Number(1)>>)>>)>>,
      <<Array(<<Number(9)>>), Array(<<Number(1)>>)>>,
      <<>>, <<>>, <<>>,
      <<Array(<<Number(1)>>), Array(<<Number(1), Number(2)>>)>>
    >>

\* The number of calls of the closure in the inputs CounterProgram(calls).
MaxCalls == 2

\* The inputs by name: <<family, member>>.
FileInputs ==
    {<<"bang", i>> : i \in 1..Len(BangOperands)}
    \cup {<<"counter", i>> : i \in 1..MaxCalls}
    \cup {<<n, 0>> : n \in {"ReturnDirect", "ReturnInBlock", "ReturnTwice",
                            "ReturnInIf", "ReturnInWhile", "Factorial",
                            "LexicalBlock", "LexicalParam", "DeepClosure",
                            "ShadowGlobal",
                            "ShadowBlock", "ShadowParam", "SelfInitTop",
                            "SelfInitBlock", "SelfInitFunction", "DeclareA",
                            "AssignUndeclared", "ReadX", "AccessLocal",
                            "AccessParam", "AccessShadowed", "AccessGlobal",
                            "NestedRead", "GlobalRead"}}
    \cup {<<n, 0>> : n \in {"BlockError", "BlockErrorInCall"}}
    \cup {<<"arity", n>> : n \in 0..MaxArguments}
    \cup {<<"arity_native", i>> : i \in 1..4}
    \cup {<<n, i>> : n \in {"ArrayAssignGlobal", "ArrayAssignLocal"}, i \in 0..MaxIndex}
    \cup {<<"StringAssign", k>> : k \in 0..((MaxIndex * Len(StringValues)) - 1)}
    \cup {<<n, i>> : n \in {"ArrayRead", "StringRead"}, i \in -1..MaxIndex}
    \cup {<<"binary", k>> : k \in 0..((Len(BinaryOperands) * Len(BinaryOperands)) - 1)}
    \cup {<<"logical", k>> : k \in 0..((Len(LogicalLefts) * Len(LogicalRights) * Len(LogicalOperators)) - 1)}
    \cup {<<"if", k>> : k \in 0..((2 * Len(IfValues)) - 1)}
    \cup {<<"ResolveFailLate", 0>>}
    \cup {<<"return", i>> : i \in 1..Len(ReturnPrograms)}
    \cup {<<"GlobalAndNested", 0>>}
    \cup {<<"LateLocal", 0>>}
    \cup {<<"callable_eq", i>> : i \in 1..Len(CallableEqPrograms)}
    \cup {<<"ReturnInCountedLoop", 0>>}
    \cup {<<n, 0>> : n \in {"WhileClosures", "WhileLocalNextPass", "WhileLocalAfter"}}
    \cup {<<"copied_array", i>> : i \in 1..Len(CopiedArrayPrograms)}

\* The lines typed at the prompt.
ReplInputs ==
    {<<n, 0>> : n \in {"NestedRead", "GlobalRead", "DeclareA", "SelfInitTop",
                       "AssignUndeclared", "ReadX", "ShadowBlock",
                       "BlockError", "ResolveFailLate",
                       "GlobalAndNested"}}

\* Scanner::scan_tokens and Parser::parse on the text of the input.
Parse(name) ==
    CASE name[1] = "bang" -> BangProgram(name[2])
      [] name[1] = "counter" -> CounterProgram(name[2])
      [] name[1] = "ReturnDirect" -> ReturnDirect
      [] name[1] = "ReturnInBlock" -> ReturnInBlock
      [] name[1] = "ReturnTwice" -> ReturnTwice
      [] name[1] = "ReturnInIf" -> ReturnInIf
      [] name[1] = "ReturnInWhile" -> ReturnInWhile
      [] name[1] = "Factorial" -> Factorial
      [] name[1] = "LexicalBlock" -> LexicalBlock
      [] name[1] = "LexicalParam" -> LexicalParam
      [] name[1] = "DeepClosure" -> DeepClosure
      [] name[1] = "ShadowGlobal" -> ShadowGlobal
      [] name[1] = "ShadowBlock" -> ShadowBlock
      [] name[1] = "ShadowParam" -> ShadowParam
      [] name[1] = "SelfInitTop" -> SelfInitTop
      [] name[1] = "SelfInitBlock" -> SelfInitBlock
      [] name[1] = "SelfInitFunction" -> SelfInitFunction
      [] name[1] = "DeclareA" -> DeclareA
      [] name[1] = "AssignUndeclared" -> AssignUndeclared
      [] name[1] = "ReadX" -> ReadX
      [] name[1] = "AccessLocal" -> AccessLocal
      [] name[1] = "AccessParam" -> AccessParam
      [] name[1] = "AccessShadowed" -> AccessShadowed
      [] name[1] = "AccessGlobal" -> AccessGlobal
      [] name[1] = "NestedRead" -> NestedRead
      [] name[1] = "GlobalRead" -> GlobalRead
      [] name[1] = "copied_array" -> CopiedArrayPrograms[name[2]]
      [] name[1] = "WhileClosures" -> WhileClosures
      [] name[1] = "WhileLocalNextPass" -> WhileLocalNextPass
      [] name[1] = "WhileLocalAfter" -> WhileLocalAfter
      [] name[1] = "ReturnInCountedLoop" -> ReturnInCountedLoop
      [] name[1] = "callable_eq" -> CallableEqPrograms[name[2]]
      [] name[1] = "LateLocal" -> LateLocal
      [] name[1] = "GlobalAndNested" -> GlobalAndNested
      [] name[1] = "return" -> ReturnPrograms[name[2]]
      [] name[1] = "ResolveFailLate" -> ResolveFailLate
      [] name[1] = "if" -> IfProgram(name[2])
      [] name[1] = "logical" -> LogicalProgram(name[2])
      [] name[1] = "binary" -> BinaryProgram(name[2])
      [] name[1] = "ArrayRead" -> ArrayRead(name[2])
      [] name[1] = "StringRead" -> StringRead(name[2])
      [] name[1] = "StringAssign" -> StringAssign(name[2])
      [] name[1] = "ArrayAssignGlobal" -> ArrayAssignGlobal(name[2])
      [] name[1] = "ArrayAssignLocal" -> ArrayAssignLocal(name[2])
      [] name[1] = "arity" -> ArityProgram(name[2])
      [] name[1] = "arity_native" -> ArityNativeProgram(name[2])
      [] name[1] = "BlockError" -> BlockError
      [] name[1] = "BlockErrorInCall" -> BlockErrorInCall

\* The indices of an expression in the order Parser::primary hands them
\* out: an assignment's target is parsed before its value, an access's
\* position before the access takes its index.
RECURSIVE ExprIndices(_)
RECURSIVE ExprsIndices(_)
ExprsIndices(exprs) ==
    IF exprs = <<>> THEN <<>>
    ELSE ExprIndices(Head(exprs)) \o ExprsIndices(Tail(exprs))

ExprIndices(expr) ==
    CASE expr.e \in {"Literal", "None"} -> <<>>
      [] expr.e = "Grouping" -> ExprIndices(expr.expr)
      [] expr.e = "Unary" -> ExprIndices(expr.right)
      [] expr.e \in {"Binary", "Logical"} ->
            ExprIndices(expr.left) \o ExprIndices(expr.right)
      [] expr.e = "Variable" -> <<expr.index>>
      [] expr.e = "Assignment" ->
            ExprIndices(expr.position) \o <<expr.index>> \o ExprIndices(expr.value)
      [] expr.e = "Array" -> ExprsIndices(expr.elements)
      [] expr.e = "Access" -> ExprIndices(expr.position) \o <<expr.index>>
      [] expr.e = "Call" -> ExprIndices(expr.callee) \o ExprsIndices(expr.args)

RECURSIVE StmtIndices(_)
RECURSIVE StmtsIndices(_)
StmtsIndices(stmts) ==
    IF stmts = <<>> THEN <<>>
    ELSE StmtIndices(Head(stmts)) \o StmtsIndices(Tail(stmts))

StmtIndices(stmt) ==
    CASE stmt.s = "None" -> <<>>
      [] stmt.s = "Expression" -> ExprIndices(stmt.expr)
      [] stmt.s = "If" ->
            ExprIndices(stmt.condition) \o StmtIndices(stmt.then_branch)
            \o StmtIndices(stmt.else_branch)
      [] stmt.s = "Return" -> ExprIndices(stmt.value)
      [] stmt.s = "Var" -> ExprIndices(stmt.initializer)
      [] stmt.s = "While" -> ExprIndices(stmt.condition) \o StmtIndices(stmt.body)
      [] stmt.s = "Block" -> StmtsIndices(stmt.statements)
      [] stmt.s = "Function" -> StmtsIndices(stmt.body)

\* Every input numbers its references 0, 1, 2, ... in parse order.
InputsIndexed ==
    \A name \in FileInputs \cup ReplInputs :
        LET ix == StmtsIndices(Parse(name))
        IN  \A i \in 1..Len(ix) : ix[i] = i - 1

\* ------------------------------------------------------------------------
\* scanner.rs and token.rs.  A source text is the sequence of its
\* characters (ASCII), offsets count from 0 as in the code.  S is the
\* Scanner: src, tokens, start, current, line; S.starts (the offset at which
\* each token of S.tokens starts), S.pc (where scan_tokens is), S.err (the
\* Err it returned) and S.spins are history.

\* '\0', which peek gives beyond the end of the text.
Nul == "NUL"

AsciiDigits == {DigitChars[d] : d \in 1..Len(DigitChars)}

AsciiLetters ==
    {"a", "b", "c", "d", "e", "f", "g", "h", "i", "j", "k", "l", "m", "n", "o",
     "p", "q", "r", "s", "t", "u", "v", "w", "x", "y", "z",
     "A", "B", "C", "D", "E", "F", "G", "H", "I", "J", "K", "L", "M", "N", "O",
     "P", "Q", "R", "S", "T", "U", "V", "W", "X", "Y", "Z"}

\* token.rs: Literal
Literal_Null == [l |-> "Null"]

Literal_Numeric(n) == [l |-> "Numeric", n |-> n]

Literal_Str(s) == [l |-> "Str", s |-> s]

Literal_Id(s) == [l |-> "Id", s |-> s]

Literal_Keyword(s) == [l |-> "Keyword", s |-> s]

\* token.rs: Token::new
Token_new(token_type, lexeme, literal, line) ==
    [token_type |-> token_type, lexeme |-> lexeme, literal |-> literal,
     line |-> line]

KEYWORD_MAP ==
    (<<"a", "n", "d">> :> "And") @@
    (<<"b", "r", "e", "a", "k">> :> "Break") @@
    (<<"c", "l", "a", "s", "s">> :> "Class") @@
    (<<"e", "l", "s", "e">> :> "Else") @@
    (<<"f", "a", "l", "s", "e">> :> "False") @@
    (<<"f", "o", "r">> :> "For") @@
    (<<"f", "u", "n">> :> "Fun") @@
    (<<"i", "f">> :> "If") @@
    (<<"n", "i", "l">> :> "Nil") @@
    (<<"o", "r">> :> "Or") @@
    (<<"p", "r", "i", "n", "t">> :> "Print") @@
    (<<"r", "e", "t", "u", "r", "n">> :> "Return") @@
    (<<"s", "u", "p", "e", "r">> :> "Super") @@
    (<<"t", "h", "i", "s">> :> "This") @@
    (<<"t", "r", "u", "e">> :> "True") @@
    (<<"v", "a", "r">> :> "Var") @@
    (<<"w", "h", "i", "l", "e">> :> "While")

\* Scanner::new
Scanner_new(src) ==
    [src |-> src, tokens |-> <<>>, start |-> 0, current |-> 0, line |-> 1,
     starts |-> <<>>, pc |-> "scan", err |-> <<>>, spins |-> 0]

is_at_end(S) == S.current >= Len(S.src)

\* &self.src[from..to]
Slice(src, from, to) == SubSeq(src, from + 1, to)

\* The character advance returns; advance moves current past it.
Current(S) == S.src[S.current + 1]

advance(S) == [S EXCEPT !.current = @ + 1]

peek(S, n) == IF S.current + n < Len(S.src) THEN S.src[S.current + n + 1] ELSE Nul

\* Scanner::expect: whether the next character is the expected one; it is
\* consumed when it is.
Expects(S, expected) == ~is_at_end(S) /\ Current(S) = expected

\* self.tokens.push(Token::new(token_type, lexeme, literal, self.line))
Push(S, token_type, lexeme, literal) ==
    [S EXCEPT !.tokens = Append(@, Token_new(token_type, lexeme, literal, S.line)),
              !.starts = Append(@, S.start)]

add_token(S, token_type, literal) ==
    Push(S, token_type, Slice(S.src, S.start, S.current), literal)

add_token_t(S, token_type) == add_token(S, token_type, Literal_Null)

add_token_s(S, token_type, literal, text) == Push(S, token_type, text, literal)

\* The loop `while self.peek(0).is_ascii_digit() { self.advance(); }`.
RECURSIVE SkipDigits(_)
SkipDigits(S) == IF peek(S, 0) \in AsciiDigits THEN SkipDigits(advance(S)) ELSE S

\* The value of a digit and of a run of digits.
DigitValue(c) == CHOOSE d \in 0..9 : DigitChars[d + 1] = c

RECURSIVE DigitsValue(_)
DigitsValue(digits) ==
    IF digits = <<>> THEN 0
    ELSE (10 * DigitsValue(SubSeq(digits, 1, Len(digits) - 1)))
         + DigitValue(digits[Len(digits)])

\* str::parse::<f64> of digits with at most one '.': the decimal number
\* units / 10^decimals.
ParseF64(text) ==
    LET dots == {i \in 1..Len(text) : text[i] = "."}
        digits == SelectSeq(text, LAMBDA c : c # ".")
    IN  [units |-> DigitsValue(digits),
         decimals |-> IF dots = {} THEN 0
                      ELSE Len(text) - (CHOOSE i \in dots : TRUE)]

\* Scanner::number
number(S) ==
    LET whole == SkipDigits(S)
        all == IF peek(whole, 0) = "." /\ peek(whole, 1) \in AsciiDigits
               THEN SkipDigits(advance(whole)) ELSE whole
    IN  add_token(all, "Number",
                  Literal_Numeric(ParseF64(Slice(all.src, all.start, all.current))))

\* The loop of Scanner::string up to the closing quote; pc = "error" when
\* the text ends first.
RECURSIVE StringLoop(_)
StringLoop(S) ==
    IF peek(S, 0) = "\"" THEN S
    ELSE LET S1 == IF peek(S, 0) = "\n" THEN [S EXCEPT !.line = @ + 1] ELSE S
         IN  IF is_at_end(S1)
             THEN [S1 EXCEPT !.pc = "error",
                             !.err = <<"Unterminated String", S1.line>>]
             ELSE StringLoop(advance(S1))

\* Scanner::string
string(S) ==
    LET body == StringLoop(S)
        closed == advance(body)
        text == Slice(closed.src, closed.start + 1, closed.current - 1)
    IN  IF body.pc = "error" THEN body
        ELSE add_token_s(closed, "String", Literal_Str(text), text)

\* The loop of Scanner::identifier.
RECURSIVE IdentifierLoop(_)
IdentifierLoop(S) ==
    IF peek(S, 0) \in AsciiLetters \cup AsciiDigits \cup {"_"}
    THEN IdentifierLoop(advance(S)) ELSE S

\* Scanner::identifier
identifier(S) ==
    LET S1 == IdentifierLoop(S)
        s == Slice(S1.src, S1.start, S1.current)
        token_type == IF s \in DOMAIN KEYWORD_MAP THEN KEYWORD_MAP[s]
                      ELSE "Identifier"
        literal == IF token_type = "Identifier" THEN Literal_Id(s)
                   ELSE Literal_Keyword(s)
    IN  add_token(S1, token_type, literal)

\* The loop of the `//` arm: up to the end of the line or of the text.
RECURSIVE SkipLine(_)
SkipLine(S) ==
    IF peek(S, 0) # "\n" /\ ~is_at_end(S) THEN SkipLine(advance(S)) ELSE S

\* The arms of scan_token that take one more character when it is `second`.
OneOrTwo(S, second, two, one) ==
    IF Expects(S, second) THEN add_token_t(advance(S), two)
    ELSE add_token_t(S, one)

\* The one-character tokens of scan_token.
SingleCharacter ==
    ("(" :> "LeftParen") @@ (")" :> "RightParen") @@ ("{" :> "LeftBrace") @@
    ("}" :> "RightBrace") @@ ("," :> "Comma") @@ ("." :> "Dot") @@
    ("-" :> "Minus") @@ ("+" :> "Plus") @@ ("%" :> "Percent") @@
    (";" :> "SemiColon") @@ ("*" :> "Star")

\* Scanner::scan_token, the call of multi_line_comment left at its entry
\* (pc = "comment").
scan_token(S0) ==
    LET c == Current(S0)
        S == advance(S0)
    IN  CASE c \in DOMAIN SingleCharacter -> add_token_t(S, SingleCharacter[c])
          [] c = "!" -> OneOrTwo(S, "=", "BangEqual", "Bang")
          [] c = "=" -> OneOrTwo(S, "=", "EqualEqual", "Equal")
          [] c = "<" -> OneOrTwo(S, "=", "LessEqual", "Less")
          [] c = ">" -> OneOrTwo(S, "=", "GreaterEqual", "Greater")
          [] c = "/" ->
                IF Expects(S, "/") THEN SkipLine(advance(S))
                ELSE IF Expects(S, "*") THEN [advance(S) EXCEPT !.pc = "comment"]
                ELSE add_token_t(S, "Slash")
          [] c = "\"" -> string(S)
          [] c \in {" ", "\r"} -> S
          [] c = "\n" -> [S EXCEPT !.line = @ + 1]
          [] OTHER ->
                IF c \in AsciiDigits THEN number(S)
                ELSE IF c \in AsciiLetters \cup {"_"} THEN identifier(S)
                ELSE [S EXCEPT !.pc = "error",
                               !.err = <<"Unexpected character", c>>]

\* The longest source text and the characters the texts are made of.
MaxLen == 3

Alphabet == {"1", ".", "+", "=", " ", "\n", "\"", "o", "r", "/", "*"}

Texts == UNION {[1..n -> Alphabet] : n \in 0..MaxLen}

\* The passes of the loop of multi_line_comment are counted modulo
\* MaxSpins + 1: a pass changes nothing in the Scanner, the count shows it.
MaxSpins == 2

\* Scanner::multi_line_comment, one pass: the loop condition and, when it
\* holds, the loop body, which returns or goes round without advancing.
multi_line_comment(S) ==
    IF peek(S, 0) # "*" /\ ~is_at_end(S)
    THEN IF peek(S, 1) = "/" THEN [S EXCEPT !.pc = "scan"]
         ELSE [S EXCEPT !.spins = (@ + 1) % (MaxSpins + 1)]
    ELSE [S EXCEPT !.pc = "scan"]

\* ------------------------------------------------------------------------
\* main.rs: the driver.

VARIABLES
    mode,        \* "file" (run_file) or "repl" (run_prompt), chosen by main
    pc,          \* where the driver is
    runNo,       \* the number of inputs read so far
    input,       \* the name of the input being run
    statements,  \* its statements, as parsed
    position,    \* the statement Interpreter::interpret is at (top level)
    resolved,    \* the Resolver of this input after Resolver::resolve
    interp,      \* the Interpreter: its environment and ret
    H,           \* the heap of frames
    locals,      \* the index to depth map shared by the frames
    owner,       \* history: per index of locals, the input that recorded it
    out,         \* the lines this input printed
    log,         \* history: the events of this input's execution
    status,      \* how the run of this input ended
    resolutions, \* history: the input and the map of every Ok of
                 \* Resolver::resolve so far
    scanner      \* the Scanner, in the specification of scan_tokens

\* The variables of the driver and all variables.
driver_vars == <<mode, pc, runNo, input, statements, position, resolved, interp,
                 H, locals, owner, out, log, status, resolutions>>

vars == <<driver_vars, scanner>>

\* Interpreter::new
Interpreter_new == Interpreter_new_with_env(Environment_new.env, 0)

\* The driver takes the statements of an input as Parser::parse returns
\* them; its specification leaves the scanner aside.
NoScanner == [Scanner_new(<<>>) EXCEPT !.pc = "idle"]

\* main has not read an input yet.
DriverStart ==
    /\ pc = "prompt"
    /\ runNo = 0
    /\ input = <<"", 0>>
    /\ statements = <<>>
    /\ position = 0
    /\ resolved = Resolver_new
    /\ interp = Interpreter_new
    /\ H = Environment_new.H
    /\ locals = <<>>
    /\ owner = <<>>
    /\ out = <<>>
    /\ log = <<>>
    /\ status = "none"
    /\ resolutions = <<>>

Init ==
    /\ mode \in {"file", "repl"}
    /\ DriverStart
    /\ scanner = NoScanner

\* Where run's caller goes once run has returned: run_file returns to main,
\* which ends the process; run_prompt loops.
AfterRun == IF mode = "file" THEN "exit" ELSE "prompt"

\* run_file reads the file; run_prompt reads a line.  run: scan and parse.
ReadInput ==
    /\ pc = "prompt"
    /\ runNo < (IF mode = "file" THEN 1 ELSE MaxInputs)
    /\ \E name \in (IF mode = "file" THEN FileInputs ELSE ReplInputs) :
          /\ input' = name
          /\ statements' = Parse(name)
    /\ pc' = "parsed"
    /\ runNo' = runNo + 1
    /\ position' = 0
    /\ resolved' = Resolver_new
    /\ out' = <<>>
    /\ log' = <<>>
    /\ status' = "running"
    /\ UNCHANGED <<scanner, resolutions, mode, interp, H, locals, owner>>

\* A run that merges what the resolver had recorded when it failed.
ResolveMergingOnError ==
    /\ pc = "parsed"
    /\ LET r == Resolver_resolve(statements, 1, Resolver_new)
       IN  IF r.ok
           THEN /\ resolved' = r.R
                /\ pc' = "resolved"
                /\ status' = status
                /\ resolutions' = Append(resolutions,
                                         [input |-> input, locals |-> r.R.locals])
                /\ locals' = locals
           ELSE /\ resolved' = resolved
                /\ pc' = AfterRun
                /\ status' = "resolve_error"
                /\ resolutions' = resolutions
                /\ locals' = Interpreter_resolve(locals, r.R.locals)
    /\ UNCHANGED <<scanner, mode, runNo, input, statements, position, interp, H, owner, out,
                   log>>

\* run: Resolver::new().resolve(&statements)?
Resolve ==
    /\ pc = "parsed"
    /\ LET r == Resolver_resolve(statements, 1, Resolver_new)
       IN  IF r.ok
           THEN /\ resolved' = r.R
                /\ pc' = "resolved"
                /\ status' = status
                /\ resolutions' = Append(resolutions,
                                         [input |-> input, locals |-> r.R.locals])
           ELSE /\ resolved' = resolved
                /\ pc' = AfterRun
                /\ status' = "resolve_error"
                /\ resolutions' = resolutions
    /\ UNCHANGED <<scanner, mode, runNo, input, statements, position, interp, H, locals,
                   owner, out, log>>

\* run: interpreter.resolve(locals)
MergeLocals ==
    /\ pc = "resolved"
    /\ locals' = Interpreter_resolve(locals, resolved.locals)
    /\ owner' = [i \in DOMAIN resolved.locals |-> runNo] @@ owner
    /\ pc' = "running"
    /\ position' = 1
    /\ UNCHANGED <<scanner, resolutions, mode, runNo, input, statements, resolved, interp, H, out, log,
                   status>>

\* The world in which the next top-level statement executes.
World ==
    [H |-> H, locals |-> locals, out |-> out, log |-> log, fuel |-> MaxFuel,
     calls |-> Cardinality({i \in 1..Len(log) : log[i].e = "call"}),
     origin |-> runNo, owner |-> owner]

\* run: one pass of the loop of Interpreter::interpret over the input.
Execute ==
    /\ pc = "running"
    /\ position <= Len(statements)
    /\ LET r == Exec(statements[position], interp, World)
       IN  /\ interp' = r.I
           /\ H' = r.W.H
           /\ out' = r.W.out
           /\ log' = r.W.log
           /\ IF r.k = "ok"
              THEN /\ position' = position + 1
                   /\ pc' = pc
                   /\ status' = status
              ELSE /\ position' = position
                   /\ pc' = IF r.k = "err" THEN AfterRun ELSE "stopped"
                   /\ status' = CASE r.k = "err" -> "runtime_error"
                                  [] r.k = "panic" -> "panic"
                                  [] r.k = "fuel" -> "diverges"
                                  [] r.k = "host" -> "host"
    /\ UNCHANGED <<scanner, resolutions, mode, runNo, input, statements, resolved, locals, owner>>

\* run: the loop is over, Ok(()).
Finish ==
    /\ pc = "running"
    /\ position > Len(statements)
    /\ pc' = AfterRun
    /\ status' = "ok"
    /\ UNCHANGED <<scanner, resolutions, mode, runNo, input, statements, position, resolved, interp, H,
                   locals, owner, out, log>>

\* run_prompt: read_line returns 0 bytes.
Quit ==
    /\ mode = "repl"
    /\ pc = "prompt"
    /\ pc' = "exit"
    /\ UNCHANGED <<scanner, resolutions, mode, runNo, input, statements, position, resolved, interp, H,
                   locals, owner, out, log, status>>

Next == ReadInput \/ Resolve \/ MergeLocals \/ Execute \/ Finish \/ Quit

Spec == Init /\ [][Next]_vars

\* ------------------------------------------------------------------------
\* Scanner::scan_tokens on every text of Texts.

ScanInit ==
    /\ mode = "file"
    /\ DriverStart
    /\ scanner \in {Scanner_new(src) : src \in Texts}

\* One pass of the loop of scan_tokens: scan_token from the current offset.
ScanToken ==
    /\ scanner.pc = "scan"
    /\ ~is_at_end(scanner)
    /\ scanner' = scan_token([scanner EXCEPT !.start = scanner.current])
    /\ UNCHANGED driver_vars

\* One pass of the loop of multi_line_comment.
MultiLineComment ==
    /\ scanner.pc = "comment"
    /\ scanner' = multi_line_comment(scanner)
    /\ UNCHANGED driver_vars

\* scan_tokens after its loop: the Eof token, Ok(()).
ScanEof ==
    /\ scanner.pc = "scan"
    /\ is_at_end(scanner)
    /\ scanner' = [scanner EXCEPT
                      !.tokens = Append(@, Token_new("Eof", <<>>, Literal_Null,
                                                     scanner.line)),
                      !.starts = Append(@, scanner.current),
                      !.pc = "done"]
    /\ UNCHANGED driver_vars

ScanNext == ScanToken \/ MultiLineComment \/ ScanEof

ScanSpec == ScanInit /\ [][ScanNext]_vars

\* scan_tokens runs on: a pass that can be made is made.
ScanFairSpec == ScanSpec /\ WF_vars(ScanNext)

\* ------------------------------------------------------------------------
\* The claims.

Events == 1..Len(log)

\* The first Return event of call c in the log; 0 if it has none.
FirstReturn(c) ==
    LET rs == {i \in Events : log[i].e = "return" /\ log[i].call = c}
    IN  IF rs = {} THEN 0 ELSE CHOOSE i \in rs : \A j \in rs : i <= j

\* C1: once a Return has executed inside a call of a user function, no
\* further statement of that call executes, and the call's result is the
\* value of that first Return.
C1_ReturnEndsTheCall ==
    /\ \A i \in Events : \A j \in Events :
          (i < j /\ log[i].e = "return" /\ log[j].e = "stmt")
              => log[j].call # log[i].call
    /\ \A j \in Events :
          (log[j].e = "exit" /\ FirstReturn(log[j].call) # 0)
              => LiteralEq(log[j].v, log[FirstReturn(log[j].call)].v)

\* C2: every evaluation of `!v` yields the Boolean that negates the
\* truthiness of v.
C2_BangNegatesTruthiness ==
    \A i \in Events :
        log[i].e = "bang" => log[i].result = Boolean(~is_truthy(log[i].operand))

\* The scope names of the frames from the outermost non-root frame down to
\* env.
RECURSIVE ChainScopes(_, _)
ChainScopes(heap, env) ==
    IF heap[env].enclosing = 0 THEN <<>>
    ELSE Append(ChainScopes(heap, heap[env].enclosing), heap[env].scope)

C4_DepthsStayWithTheirInput ==
    /\ status # "panic"
    /\ \A i \in Events : log[i].e = "lookup" => log[i].owner = log[i].origin

\* Whether the expression holds a read of the variable.
RECURSIVE ReadsVariable(_, _)
ReadsVariable(expr, lexeme) ==
    CASE expr.e \in {"Literal", "None"} -> FALSE
      [] expr.e = "Grouping" -> ReadsVariable(expr.expr, lexeme)
      [] expr.e = "Unary" -> ReadsVariable(expr.right, lexeme)
      [] expr.e \in {"Binary", "Logical"} ->
            ReadsVariable(expr.left, lexeme) \/ ReadsVariable(expr.right, lexeme)
      [] expr.e = "Variable" -> expr.name.lexeme = lexeme
      [] expr.e = "Assignment" ->
            ReadsVariable(expr.value, lexeme) \/ ReadsVariable(expr.position, lexeme)
      [] expr.e = "Array" ->
            \E i \in 1..Len(expr.elements) : ReadsVariable(expr.elements[i], lexeme)
      [] expr.e = "Access" -> ReadsVariable(expr.position, lexeme)
      [] expr.e = "Call" ->
            \/ ReadsVariable(expr.callee, lexeme)
            \/ \E i \in 1..Len(expr.args) : ReadsVariable(expr.args[i], lexeme)

\* Whether the statement holds, at any depth, a declaration whose
\* initializer reads the variable being declared.
RECURSIVE HasSelfInitializer(_)
HasSelfInitializer(stmt) ==
    CASE stmt.s \in {"None", "Expression", "Return"} -> FALSE
      [] stmt.s = "Var" -> ReadsVariable(stmt.initializer, stmt.name.lexeme)
      [] stmt.s = "If" ->
            HasSelfInitializer(stmt.then_branch) \/ HasSelfInitializer(stmt.else_branch)
      [] stmt.s = "While" -> HasSelfInitializer(stmt.body)
      [] stmt.s = "Block" ->
            \E i \in 1..Len(stmt.statements) : HasSelfInitializer(stmt.statements[i])
      [] stmt.s = "Function" ->
            \E i \in 1..Len(stmt.body) : HasSelfInitializer(stmt.body[i])

\* C5: an input holding a declaration whose initializer reads the declared
\* variable, at any scope level, is rejected by the resolver: it never gets
\* past resolution.
C5_SelfInitializerRejected ==
    (\E i \in 1..Len(statements) : HasSelfInitializer(statements[i]))
        => (pc = "parsed" \/ status = "resolve_error")

\* C6: a plain assignment that fails as an assignment to an undefined
\* variable leaves the variable undefined in the root frame.
C6_FailedAssignmentDefinesNothing ==
    \A i \in Events :
        log[i].e = "assign_undefined"
            => log[i].name \notin DOMAIN H[Outermost(H, interp.environment)].values

\* The lines CounterProgram(calls) prints when the closures of one call of
\* make share n and those of another call of make have their own: 1..calls
\* by c, then g sees calls, d starts at 1 and c goes on with calls + 1.
CounterLines(calls) ==
    [i \in 1..calls |-> NumberToChars(i)]
    \o <<NumberToChars(calls), NumberToChars(1), NumberToChars(calls + 1)>>

IsPrefix(a, b) == Len(a) <= Len(b) /\ a = SubSeq(b, 1, Len(a))

\* C7: a closure shares the frame it captured: the k-th call of the counter
\* closure yields k, a second closure of the same activation sees the count,
\* and the closure of another activation counts on its own.
C7_ClosuresShareTheCapturedFrame ==
    (runNo = 1 /\ input[1] = "counter") =>
        /\ status \in {"running", "ok"}
        /\ IsPrefix(out, CounterLines(input[2]))
        /\ status = "ok" => out = CounterLines(input[2])

\* C7 witness: the counter program with two calls of c has run to its end.
C7_Witness ==
    /\ input = <<"counter", MaxCalls>>
    /\ status = "ok"
    /\ out = CounterLines(MaxCalls)
    /\ \E i \in Events : log[i].e = "exit" /\ log[i].v = Number(MaxCalls + 1)

\* C8: the frame of every call of a user function has as its parent the
\* frame that was current when the Function statement executed, so a free
\* name of the body reads the binding of the definition site although the
\* caller has a local of that name.
C8_CallFrameEnclosesDefinitionFrame ==
    /\ \A i \in Events :
          log[i].e = "call" => H[log[i].frame].enclosing = log[i].captured
    /\ (input[1] = "LexicalBlock" /\ pc = "exit")
          => (status = "ok" /\ out = <<<<"d", "e", "f">>>>)
    /\ (input[1] = "LexicalParam" /\ pc = "exit")
          => (status = "ok" /\ out = <<NumberToChars(1)>>)
    /\ (input[1] = "DeepClosure" /\ pc = "exit")
          => (status = "ok" /\ out = <<NumberToChars(3)>>)

\* C8 witness: a function was called from a frame other than the one that
\* defined it, the caller's frame binding the name the body reads, and the
\* body read the definition site's binding.
C8_Witness ==
    /\ input[1] = "LexicalBlock"
    /\ status = "ok"
    /\ out = <<<<"d", "e", "f">>>>
    /\ \E i \in Events :
          /\ log[i].e = "call"
          /\ log[i].caller # log[i].captured
          /\ "x" \in DOMAIN H[log[i].caller].values

\* C9: an indexed read name[i] whose name is bound in some frame of the
\* current chain reads the nearest such binding.
C9_AccessReadsNearestBinding ==
    \A i \in Events :
        (log[i].e = "access" /\ log[i].nearest # 0)
            => (log[i].k = "ok" /\ log[i].read = log[i].nearest)

\* C10: a declaration in a block of a name of an enclosing scope makes a
\* separate binding: after `a = 3` in the block the block reads 3, the read
\* of the outer a after the block gives 1, and at the top level the root
\* frame holds a = 1 after the block.
C10_BlockDeclarationShadows ==
    /\ input[1] \in {"ShadowGlobal", "ShadowBlock", "ShadowParam"}
          => /\ IsPrefix(out, <<NumberToChars(3), NumberToChars(1)>>)
             /\ status = "ok" => out = <<NumberToChars(3), NumberToChars(1)>>
             /\ runNo = 1 => status \in {"running", "ok"}
    /\ (input[1] = "ShadowGlobal" /\ pc = "running" /\ position > 1)
          => H[interp.environment].values["a"] = Number(1)

\* C10 witness: the block has declared and assigned its own a, and the
\* program has printed the outer a after it.
C10_Witness ==
    /\ input[1] = "ShadowBlock"
    /\ pc = "exit"
    /\ out = <<NumberToChars(3), NumberToChars(1)>>
    /\ \E f \in 1..Len(H) :
          /\ H[f].enclosing # 0
          /\ H[f].scope = "b"
          /\ H[f].values["a"] = Number(3)
          /\ H[H[f].enclosing].values["a"] = Number(1)

\* C11: after a Block statement the interpreter's current frame is the frame
\* that was current when the block was entered, whether the block completed,
\* a statement in it failed or a Return executed in it; between top-level
\* statements the current frame is therefore always the root frame.
C11_BlockRestoresTheFrame ==
    /\ interp.environment = Environment_new.env
    /\ \A i \in Events :
          log[i].e = "block" => log[i].left = log[i].entered

\* C11 witness: a runtime error left a block nested in another block, and
\* the run ended with it.
C11_Witness ==
    /\ input[1] = "BlockError"
    /\ status = "runtime_error"
    /\ Cardinality({i \in Events : log[i].e = "block" /\ log[i].exit = "err"})
          = Len(<<"i", "o">>)

\* C12: a call whose argument count differs from the arity of the user or
\* native function fails with an error that carries the function's name,
\* the expected count and the actual count; no call frame is made, no
\* statement of the body and no host function runs.
C12_ArityMismatchFails ==
    /\ \A i \in Events :
          /\ log[i].e = "call" => Len(log[i].arguments) = log[i].arity
          /\ log[i].e = "native"
                => Len(log[i].arguments) = globals[log[i].name].arity
          /\ log[i].e = "arity_error"
                => (log[i].got # log[i].expected /\ i = Len(log))
    /\ (input[1] = "arity" /\ input[2] # ArityOfF /\ pc = "exit")
          => /\ status = "runtime_error"
             /\ out = <<>>
             /\ Len(H) = Len(Environment_new.H)
             /\ log[Len(log)] = [e |-> "arity_error", native |-> FALSE,
                                  name |-> "f", expected |-> ArityOfF,
                                  got |-> input[2]]
             /\ \A i \in Events : log[i].e \notin {"call", "block"}
    /\ (input[1] = "arity" /\ input[2] = ArityOfF /\ pc = "exit")
          => (status = "ok" /\ out = <<NumberToChars(7)>>)
    /\ (input[1] = "arity_native" /\ pc = "exit")
          => /\ status = "runtime_error"
             /\ log[Len(log)].e = "arity_error"
             /\ log[Len(log)].native
             /\ log[Len(log)].name = <<"print", "clock", "parse", "input">>[input[2]]
             /\ log[Len(log)].expected = <<1, 0, 2, 1>>[input[2]]
             /\ log[Len(log)].got = <<2, 1, 1, 0>>[input[2]]
             /\ \A i \in Events : log[i].e # "native"

\* C12 witness: the two-parameter function was called with one argument
\* and the run ended with the argument-count error.
C12_Witness ==
    /\ input = <<"arity", 1>>
    /\ status = "runtime_error"
    /\ log[Len(log)].e = "arity_error"
    /\ log[Len(log)].got = 1

\* The array [1, 2] of the inputs ArrayAssign*.
ArrayOfInputs == <<Number(1), Number(2)>>

\* C13: an indexed assignment on an Array of length L replaces element i
\* and keeps the length when i < L, appends the value as the new last
\* element when i = L and fails when i > L; the variable then holds the new
\* array.
C13_ArrayAssignmentReplacesOrAppends ==
    /\ \A i \in Events :
          (log[i].e = "index_assign" /\ log[i].target.t = "Array")
              => LET old == log[i].target.a
                     at == log[i].position
                 IN  /\ at < Len(old)
                           => log[i].result = Some([old EXCEPT ![at + 1] = log[i].value])
                     /\ at = Len(old)
                           => log[i].result = Some(Append(old, log[i].value))
                     /\ at > Len(old) => log[i].result = None
    /\ (input[1] \in {"ArrayAssignGlobal", "ArrayAssignLocal"} /\ pc = "exit")
          => LET L == Len(ArrayOfInputs)
             IN  /\ input[2] < L
                       => /\ status = "ok"
                          /\ out = <<to_string(Array([ArrayOfInputs EXCEPT
                                                         ![input[2] + 1] = Number(9)]))>>
                 /\ input[2] = L
                       => /\ status = "ok"
                          /\ out = <<to_string(Array(Append(ArrayOfInputs, Number(9))))>>
                 /\ input[2] > L => (status = "runtime_error" /\ out = <<>>)

\* C13 witness: `a[2] = 9` on the two-element array appended the value.
C13_Witness ==
    /\ input = <<"ArrayAssignLocal", Len(ArrayOfInputs)>>
    /\ status = "ok"
    /\ out = <<to_string(Array(<<Number(1), Number(2), Number(9)>>))>>

\* C14: every successful indexed assignment on a String of length L changes
\* it by exactly one character: the value's text is one character, which
\* replaces the character at i when i < L and is appended when i = L.
C14_StringAssignmentChangesOneCharacter ==
    \A i \in Events :
        (log[i].e = "index_assign" /\ log[i].target.t = "Str"
            /\ log[i].result # None)
            => LET old == log[i].target.s
                   at == log[i].position
                   text == to_string(log[i].value)
               IN  /\ Len(text) = 1
                   /\ at <= Len(old)
                   /\ at < Len(old)
                         => Unwrap(log[i].result) = [old EXCEPT ![at + 1] = text[1]]
                   /\ at = Len(old)
                         => Unwrap(log[i].result) = Append(old, text[1])

\* The elements of the Array, the characters of the String that name[i]
\* reads from, each as the value an indexed read returns.
Elements(target) ==
    IF target.t = "Array" THEN target.a
    ELSE [j \in 1..Len(target.s) |-> Str(<<target.s[j]>>)]

\* C15: an indexed read with the Number index i on an Array or String of
\* length L gives the element or character at i when 0 <= i < L, and fails
\* for every other index: for each negative one and for i = L.
C15_AccessChecksBounds ==
    /\ \A i \in Events :
          (log[i].e = "access" /\ log[i].target.t \in {"Array", "Str"})
              => LET values == Elements(log[i].target)
                     n == log[i].number
                 IN  IF 0 <= n /\ n < Len(values)
                     THEN log[i].result = Some(values[n + 1])
                     ELSE log[i].result = None
    /\ (input[1] \in {"ArrayRead", "StringRead"} /\ pc = "exit")
          => LET values == IF input[1] = "ArrayRead" THEN <<Number(1), Number(2)>>
                           ELSE <<Str(<<"a">>), Str(<<"b">>)>>
             IN  IF 0 <= input[2] /\ input[2] < Len(values)
                 THEN status = "ok" /\ out = <<to_string(values[input[2] + 1])>>
                 ELSE status = "runtime_error" /\ out = <<>>

\* The operand type pairs for which the claim lets `+` succeed.
PlusPairs ==
    {<<"Number", "Number">>, <<"String", "String">>, <<"String", "Number">>,
     <<"Number", "String">>}

\* C16: `+` succeeds for the operand type pairs Number+Number,
\* String+String, String+Number and Number+String, and fails for every
\* other pair of operand types.
C16_PlusAcceptsOnlyNumbersAndStrings ==
    \A i \in Events :
        (log[i].e = "binary" /\ log[i].operator = "Plus")
            => (log[i].k = "ok"
                  <=> <<to_type(log[i].left), to_type(log[i].right)>> \in PlusPairs)

\* C17: `==` and `!=` never fail; on operands of different types `==` is
\* false and `!=` is true; on operands of the same type other than Callable
\* `==` is structural equality; `!=` on two operands is the negation of
\* `==` on them.
C17_EqualityNeverFails ==
    /\ \A i \in Events :
          (log[i].e = "binary" /\ log[i].operator \in {"EqualEqual", "BangEqual"})
              => /\ log[i].k = "ok"
                 /\ log[i].v.t = "Boolean"
                 /\ log[i].left.t # log[i].right.t
                       => log[i].v.b = (log[i].operator = "BangEqual")
                 /\ (log[i].left.t = log[i].right.t /\ log[i].left.t # "Callable")
                       => log[i].v.b = ((log[i].left = log[i].right)
                                          <=> log[i].operator = "EqualEqual")
                 /\ \A j \in Events :
                       (/\ log[j].e = "binary"
                        /\ log[j].operator \in {"EqualEqual", "BangEqual"}
                        /\ log[j].operator # log[i].operator
                        /\ log[j].left = log[i].left
                        /\ log[j].right = log[i].right)
                           => log[j].v.b # log[i].v.b
    /\ (input[1] = "binary" /\ pc = "exit")
          => /\ Len(out) >= Len(<<"EqualEqual", "BangEqual">>)
             /\ {out[1], out[2]} = {to_string(Boolean(TRUE)), to_string(Boolean(FALSE))}

\* C17 witness: `1 == "1"` gave false and `1 != "1"` gave true.
C17_Witness ==
    /\ input[1] = "binary"
    /\ pc = "exit"
    /\ out[1] = to_string(Boolean(FALSE))
    /\ out[2] = to_string(Boolean(TRUE))
    /\ \E i \in Events :
          /\ log[i].e = "binary"
          /\ log[i].operator = "EqualEqual"
          /\ log[i].left = Number(1)
          /\ log[i].right = Str(<<"1">>)

\* Whether `l op r` stops at the left operand: `or` with a truthy left,
\* `and` with a falsy left.
ShortCircuits(operator, left) ==
    \/ operator = "Or" /\ is_truthy(left)
    \/ operator = "And" /\ ~is_truthy(left)

\* C18: `l or r` and `l and r` evaluate the left operand once; when the
\* operator stops at the left operand the result is the left value itself
\* and the right operand is not evaluated; otherwise the right operand is
\* evaluated once and its value itself is the result.
C18_LogicalShortCircuits ==
    (input[1] = "logical" /\ pc = "exit")
        => LET left == LogicalLeft(input[2]).e
               l == IF left = "Array"
                    THEN Array([i \in 1..Len(LogicalLeft(input[2]).elements)
                                  |-> LogicalLeft(input[2]).elements[i].literal])
                    ELSE LogicalLeft(input[2]).literal
               r == LogicalRight(input[2]).literal
               short == ShortCircuits(LogicalOperator(input[2]), l)
           IN  /\ status = "ok"
               /\ out = <<to_string(IF short THEN l ELSE r), NumberToChars(1),
                          NumberToChars(IF short THEN 0 ELSE 1)>>

\* C18 witness: `"a" or r()` printed a and never called r, which would
\* have counted in m.
C18_Witness ==
    /\ input[1] = "logical"
    /\ LogicalLeft(input[2]) = Text(<<"a">>)
    /\ LogicalOperator(input[2]) = "Or"
    /\ pc = "exit"
    /\ out = <<<<"a">>, NumberToChars(1), NumberToChars(0)>>

\* The falsy values: Number 0, the empty String, false, nil, the empty Array.
Falsy == {Number(0), Str(<<>>), Boolean(FALSE), Nil, Array(<<>>)}

\* C19: an If statement evaluates its condition once and executes the
\* then-branch alone when the value is not falsy, the else-branch alone, or
\* nothing when there is none, when it is falsy; the falsy values are
\* Number 0, the empty String, false, nil and the empty Array, and every
\* Callable is truthy.
C19_IfTakesOneBranchByTruthiness ==
    /\ \A i \in Events :
          log[i].e = "if"
              => /\ log[i].condition \notin Falsy => log[i].branch = "then"
                 /\ log[i].condition \in Falsy => log[i].branch \in {"else", "none"}
                 /\ log[i].condition.t = "Callable" => log[i].branch = "then"
    /\ (input[1] = "if" /\ pc = "exit")
          => /\ status = "ok"
             /\ \E i \in Events :
                   /\ log[i].e = "exit"
                   /\ out = (IF log[i].v \notin Falsy THEN <<<<"t">>>>
                             ELSE IF IfHasElse(input[2]) THEN <<<<"e">>>>
                             ELSE <<>>)
                            \o <<NumberToChars(1)>>

\* C19 witness: the condition was the empty Array and the else-branch ran.
C19_Witness ==
    /\ input[1] = "if"
    /\ pc = "exit"
    /\ out = <<<<"e">>, NumberToChars(1)>>
    /\ \E i \in Events : log[i].e = "if" /\ log[i].condition = Array(<<>>)

\* A step taken at the prompt or with the input parsed and not yet resolved
\* leaves the frames, the index to depth map and the interpreter as they are.
UntilResolvedInterpreterKept ==
    pc \in {"prompt", "parsed"} => (H' = H /\ locals' = locals /\ interp' = interp)

\* C20: when the resolver reports an error for an input, no statement of
\* the input executes and the interpreter stays as it was before the input:
\* from the prompt to the end of the resolution the frames, their bindings
\* and the index to depth map do not change.
C20_ResolverErrorChangesNothing ==
    /\ [](status = "resolve_error"
            => (log = <<>> /\ out = <<>> /\ position = 0 /\ pc # "running"))
    /\ [][UntilResolvedInterpreterKept]_vars

\* C20 witness: the second line at the prompt was rejected by the resolver
\* after it had recorded a depth, and the interpreter holds the bindings
\* and depths of the first line only.
C20_Witness ==
    /\ runNo = MaxInputs
    /\ input[1] = "ResolveFailLate"
    /\ status = "resolve_error"
    /\ locals # <<>>
    /\ \A i \in DOMAIN owner : owner[i] < runNo

\* Some Return of the statement is under no function declaration.
RECURSIVE ReturnOutsideFunction(_)
ReturnOutsideFunction(stmt) ==
    CASE stmt.s = "Return" -> TRUE
      [] stmt.s = "If" -> \/ ReturnOutsideFunction(stmt.then_branch)
                          \/ ReturnOutsideFunction(stmt.else_branch)
      [] stmt.s = "While" -> ReturnOutsideFunction(stmt.body)
      [] stmt.s = "Block" ->
            \E i \in 1..Len(stmt.statements) :
                ReturnOutsideFunction(stmt.statements[i])
      [] OTHER -> FALSE

\* C21: once an input has been resolved, it is rejected when one of its
\* Return statements is under no function declaration (at top level, in a
\* top-level block, if branch or while body, also after a function
\* declaration has been resolved), and an input that reads no variable in
\* its own initializer is rejected only then: a Return inside a function
\* body, also after a nested function declaration, is accepted.
C21_ReturnRejectedOutsideFunctions ==
    (runNo > 0 /\ pc # "parsed") =>
        LET outside == \E i \in 1..Len(statements) :
                           ReturnOutsideFunction(statements[i])
            selfinit == \E i \in 1..Len(statements) :
                            HasSelfInitializer(statements[i])
        IN  /\ outside => status = "resolve_error"
            /\ (status = "resolve_error" /\ ~selfinit) => outside

\* C21: the input `fun f() { fun g() { return 1; } } return 2;` has been
\* rejected.
C21_Witness ==
    /\ input = <<"return", 7>>
    /\ status = "resolve_error"
    /\ pc = "exit"

\* C22: when an earlier line typed at the prompt has left a binding of x in
\* the root frame, the later line `print(x);` runs to its end and prints the
\* value the root frame holds for x.
C22_TopLevelDeclarationsPersist ==
    (/\ mode = "repl"
     /\ runNo > 1
     /\ input[1] = "ReadX"
     /\ "x" \in DOMAIN H[Environment_new.env].values
     /\ pc \in {"prompt", "exit", "stopped"})
        => /\ status = "ok"
           /\ out = <<to_string(H[Environment_new.env].values["x"])>>

\* C23: a variable read for whose index no depth is recorded gives the value
\* of the nearest binding of the name on the chain from the current frame,
\* and fails exactly when no frame of the chain binds the name.
C23_UnresolvedReadSearchesTheChain ==
    \A i \in Events :
        log[i].e = "search" =>
            IF log[i].nearest = 0 THEN ~log[i].found
            ELSE /\ log[i].found
                 /\ log[i].v = log[i].H[log[i].nearest].values[log[i].name]

C25_CallablesEqualByNameAndArity ==
    \A i \in Events :
        (/\ log[i].e = "binary"
         /\ log[i].operator = "EqualEqual"
         /\ log[i].left.t = "Callable"
         /\ log[i].right.t = "Callable"
         /\ "LoxFunction" \in {log[i].left.c, log[i].right.c})
            => /\ log[i].k = "ok"
               /\ log[i].v =
                     Boolean(/\ log[i].left.c = log[i].right.c
                             /\ log[i].left.name.lexeme = log[i].right.name.lexeme
                             /\ log[i].left.arity = log[i].right.arity)

\* The line on which token k of the scanner starts, the number of source
\* characters it takes, and the source text at its start.
StartLine(k) ==
    1 + Cardinality({i \in 1..scanner.starts[k] : scanner.src[i] = "\n"})

Extent(k) ==
    IF scanner.tokens[k].token_type = "String"
    THEN Len(scanner.tokens[k].lexeme) + 2
    ELSE Len(scanner.tokens[k].lexeme)

SourceText(k) ==
    IF scanner.tokens[k].token_type = "String"
    THEN Slice(scanner.src, scanner.starts[k] + 1,
               scanner.starts[k] + 1 + Len(scanner.tokens[k].lexeme))
    ELSE Slice(scanner.src, scanner.starts[k],
               scanner.starts[k] + Len(scanner.tokens[k].lexeme))

\* The tokens end with the only Eof token.
EofLastAndOnly ==
    LET n == Len(scanner.tokens)
    IN  /\ n >= 1
        /\ \A k \in 1..n : (scanner.tokens[k].token_type = "Eof") <=> (k = n)

\* The tokens are in source order, each with the text found at its start;
\* a number is one token of digit text.
TokensInSourceOrder ==
    LET n == Len(scanner.tokens)
    IN  /\ \A k \in 1..n : scanner.tokens[k].lexeme = SourceText(k)
        /\ \A k \in 1..(n - 1) :
              scanner.starts[k] + Extent(k) <= scanner.starts[k + 1]
        /\ \A k \in 1..n :
              scanner.tokens[k].token_type = "Number"
                  => /\ \A i \in 1..Len(scanner.tokens[k].lexeme) :
                           scanner.tokens[k].lexeme[i] \in AsciiDigits \cup {"."}
                     /\ (k < n /\ scanner.tokens[k + 1].token_type = "Number")
                           => scanner.starts[k] + Extent(k) < scanner.starts[k + 1]

\* In a text without comments, the characters no token takes are spaces
\* and line ends.
OnlySpacesSkipped ==
    (\A i \in 1..Len(scanner.src) : scanner.src[i] # "/")
        => \A i \in 1..Len(scanner.src) :
              \/ scanner.src[i] \in {" ", "\r", "\n"}
              \/ \E k \in 1..Len(scanner.tokens) :
                    /\ scanner.starts[k] < i
                    /\ i <= scanner.starts[k] + Extent(k)

\* Every token carries the line on which it starts.
TokensCarryStartLine ==
    \A k \in 1..Len(scanner.tokens) : scanner.tokens[k].line = StartLine(k)

\* C26: when scan_tokens has returned Ok, the tokens are those of the text
\* in source order, spaces skipped, each with its lexeme and the line it
\* starts on, a number as one Number token, and exactly one Eof token, last.
C26_ScanTokensGivesTheTokens ==
    scanner.pc = "done" =>
        /\ EofLastAndOnly
        /\ TokensInSourceOrder
        /\ OnlySpacesSkipped
        /\ TokensCarryStartLine

\* C27: a Return inside a while loop of a function body ends the call: the
\* run of the input whose loop would go round three times and returns the
\* counter in its first pass ends having printed 1.
C27_ReturnInLoopEndsTheCall ==
    (/\ input[1] = "ReturnInCountedLoop"
     /\ pc \in {"exit", "stopped"})
        => /\ status = "ok"
           /\ out = <<NumberToChars(1)>>

\* The frames made for the block named sid.
FramesOf(sid) == {f \in 1..Len(H) : H[f].enclosing # 0 /\ H[f].scope = sid}

\* C28: every pass of a while loop whose body is a block runs in a frame of
\* its own under the frame that encloses the loop.  The closures made in two
\* passes hold different frames and each counts on its own n (the calls
\* print 10, 11, 20); a variable the body declares is not there in the next
\* pass nor after the loop (the read fails, nothing is printed).
C28_EachPassHasItsOwnFrame ==
    /\ input[1] \in {"WhileClosures", "WhileLocalNextPass", "WhileLocalAfter"}
          => \A f \in FramesOf("w") : H[f].enclosing = Environment_new.env
    /\ input[1] = "WhileClosures"
          => /\ IsPrefix(out, <<NumberToChars(10), NumberToChars(11),
                                NumberToChars(20)>>)
             /\ pc = "exit"
                   => /\ status = "ok"
                      /\ Len(out) = 3
                      /\ Cardinality(FramesOf("w")) = 2
                      /\ H[Environment_new.env].values["f0"].environment
                            # H[Environment_new.env].values["f1"].environment
    /\ (input[1] \in {"WhileLocalNextPass", "WhileLocalAfter"} /\ pc = "exit")
          => /\ status = "runtime_error"
             /\ out = <<>>
             /\ "n" \notin DOMAIN H[Environment_new.env].values

\* C28 witness: the closures of the two passes have been called and the
\* first one has counted twice on its own n.
C28_Witness ==
    /\ input[1] = "WhileClosures"
    /\ pc = "exit"
    /\ out = <<NumberToChars(10), NumberToChars(11), NumberToChars(20)>>
    /\ \E f, g \in FramesOf("w") :
          /\ f # g
          /\ H[f].values["n"] = Number(20)
          /\ H[g].values["n"] = Number(11)

\* C29: an indexed assignment changes at most the binding of its name in the
\* frame the name resolves to: every other binding of every frame, also one
\* that received the same array before, keeps its value, and when the
\* assignment fails no binding changes.  The inputs that copy an array and
\* assign into one of the two print the changed array and the old one.
C29_IndexedAssignmentChangesOneBinding ==
    /\ \A i \in Events :
          log[i].e = "indexed" =>
              /\ Len(log[i].after) = Len(log[i].before)
              /\ log[i].k # "ok" => log[i].after = log[i].before
              /\ \A f \in 1..Len(log[i].before) :
                    /\ DOMAIN log[i].after[f].values = DOMAIN log[i].before[f].values
                    /\ \A x \in DOMAIN log[i].before[f].values :
                          (f # log[i].frame \/ x # log[i].name)
                              => log[i].after[f].values[x]
                                    = log[i].before[f].values[x]
    /\ input[1] = "copied_array"
          => /\ IsPrefix(out, [j \in 1..Len(CopiedArrayOutputs[input[2]]) |->
                                 to_string(CopiedArrayOutputs[input[2]][j])])
             /\ pc = "exit"
                   => IF input[2] \in {5, 6, 7}
                      THEN /\ status = "runtime_error"
                           /\ H = <<Frame(
                                 IF input[2] = 7 THEN ("n" :> Number(5)) @@ globals
                                 ELSE ("a" :> Array(<<Number(1)>>)) @@
                                      ("b" :> Array(<<Number(1)>>)) @@ globals,
                                 0, 0)>>
                      ELSE /\ status = "ok"
                           /\ Len(out) = Len(CopiedArrayOutputs[input[2]])

\* C29 witness: a has been changed at position 0 after b received the array,
\* and both have been printed.
C29_Witness ==
    /\ input = <<"copied_array", 1>>
    /\ pc = "exit"
    /\ out = <<to_string(Array(<<Number(9), Number(2)>>)),
               to_string(Array(<<Number(1), Number(2)>>))>>
    /\ \E i \in Events : log[i].e = "indexed" /\ log[i].k = "ok"

\* C30: scan_tokens returns on every source text, with the tokens or with a
\* lexical error, also when the text holds the comment opener /*.
C30_ScanTokensTerminates == <>(scanner.pc \in {"done", "error"})

====
